---- MODULE Spec2Model ----
(***************************************************************************)
(* Bundle-graph construction of the build core:                            *)
(*   packages/core/core/src/requests/BundleGraphRequest.js                 *)
(* One process runs a sequence of bundle-graph requests.  Each request     *)
(* creates a BundlerRunner and executes BundlerRunner.bundle(), an async   *)
(* function; one action models one stretch of it between suspension        *)
(* points.  JavaScript strings are sequences of tokens, `+` and join('')   *)
(* are concatenation (\o); null/undefined string slots hold NullStr.       *)
(***************************************************************************)
EXTENDS Integers, Sequences, FiniteSets, TLC

\* Number of bundle-graph requests one process runs.
MaxRuns == 2

----------------------------------------------------------------------------
(* Domains the inputs are drawn from *)

GraphHashes == {<<"g1">>, <<"g2">>}
ConfigHashes == {<<"c1">>, <<"c2">>}
\* Config hashes of the namers' configuration, and the combinations of bundler
\* and namer configuration a project passes through.
NamerConfigHashes == {"k:", "k2:"}
ConfigProfiles ==
  {[bundler |-> <<"c1">>, namer |-> "k:"],
   [bundler |-> <<"c2">>, namer |-> "k:"],
   [bundler |-> <<"c1">>, namer |-> "k2:"]}
Modes == {"development", "production"}
\* Assets of each asset graph; a build's changedAssets are the assets of its
\* graph when the graph differs from the preceding build's, none otherwise.
AssetsOf(h) == IF h = <<"g1">> THEN <<"a1">> ELSE <<"a1", "a2">>
ChangedAssets(h, previousHash) == IF h = previousHash THEN <<>> ELSE AssetsOf(h)
NoStr == <<>>
NullStr == <<"<null>">>

PARCEL_VERSION == <<"v2">>
BundlerPlugin == [name |-> "bundler", resolveFrom |-> "parcelrc"]
\* The configured namers, in list order, each with the name it proposes when it
\* does not decline (return null).
Namers == <<[name |-> "A", resolveFrom |-> "parcelrc", proposes |-> <<"x">>],
            [name |-> "B", resolveFrom |-> "parcelrc", proposes |-> <<"y">>]>>
Runtimes == <<[name |-> "R", resolveFrom |-> "parcelrc"]>>

MkBundle(dir, inl, ref) ==
  [distDir |-> dir, isInline |-> inl, hashReference |-> ref,
   name |-> NullStr, displayName |-> NullStr]

\* The bundles the bundler plugin creates: a function of the asset graph and
\* of the plugin's configuration.
BundlesFor(graphHash, bundlerConfigHash) ==
  IF graphHash = <<"g1">>
    THEN << MkBundle(<<"dist">>, FALSE, "H1") >>
  ELSE IF bundlerConfigHash = <<"c1">>
    THEN << MkBundle(<<"dist">>, FALSE, "H1"), MkBundle(<<"dist">>, TRUE, "H2") >>
  ELSE << MkBundle(<<"dist">>, FALSE, "H1"), MkBundle(<<"lib">>, FALSE, "H2") >>

\* A heap slot that holds no bundle graph.
FreeGraph == [bundles |-> <<>>, origin |-> "free", assets |-> {}]

----------------------------------------------------------------------------
(* Values *)

ResultFields == {"bundleGraph", "bundlerHash", "changedAssets"}

\* A JavaScript value that bundle() returns or stores: nothing, a result
\* record with the listed fields, or a bare bundle graph object.
NoValue ==
  [kind |-> "none", fields |-> {}, bundleGraph |-> 0,
   bundlerHash |-> NoStr, changedAssets |-> {}]
ResultRecord(bg, hash, changed) ==
  [kind |-> "record", fields |-> ResultFields, bundleGraph |-> bg,
   bundlerHash |-> hash, changedAssets |-> changed]
GraphValue(bg) ==
  [kind |-> "graph", fields |-> {}, bundleGraph |-> bg,
   bundlerHash |-> NoStr, changedAssets |-> {}]

NoError == [kind |-> "none", origin |-> "", message |-> ""]
Diagnostic(origin) == [kind |-> "diagnostic", origin |-> origin, message |-> "plugin"]
PlainError(msg) == [kind |-> "error", origin |-> "", message |-> msg]

NoEntry == [result |-> NoValue, cacheKey |-> NoStr]

Ev(op, arg) == [op |-> op, arg |-> arg]

\* The locals of the build request's run before its first statement.
BuildStart ==
  [pc |-> "start",
   assetGraphResult |-> [kind |-> "none"],
   assetGraph |-> NoStr, previousAssetGraphHash |-> NoStr,
   changedAssets |-> <<>>, assetRequests |-> <<>>,
   bundleGraphRequest |-> [kind |-> "none"],
   bundleGraphResult |-> [kind |-> "none"],
   bundleGraph |-> 0, changedRuntimeAssets |-> <<>>,
   writeBundlesRequest |-> [kind |-> "none"],
   bundleInfo |-> NoStr,
   result |-> [kind |-> "none"]]

----------------------------------------------------------------------------
VARIABLES
  options,                    \* ParcelOptions: mode, shouldDisableCache
  dumpFails,                  \* the graph-snapshot facility fails in this process
  resident,                   \* request tracker: request id -> stored result
  graphs,                     \* heap of InternalBundleGraph objects, each
                              \* identified by the run that created it
  runs,                       \* requests started so far
  lastHash,                   \* hash of the preceding build's asset graph
  pc,                         \* position inside bundle()
  assetGraph,                 \* input.assetGraph: hash, safeToIncrementallyBundle
  predecessor,                \* result held for previousAssetGraphHash at the start
  probe,                      \* outcome of the resident probe
  input,                      \* previousAssetGraphHash, changedAssets
  configs,                    \* this.configs (insertion ordered)
  devDepRequests,             \* this.devDepRequests (insertion ordered)
  invalidations,              \* api.getInvalidations()
  keys,                       \* {cacheKey, bundlerHash} of the first getHashes
  previousBundleGraphResult,
  internalBundleGraph,        \* 0 while undefined
  tasks,                      \* nameBundle promises, one per bundle
  error,                      \* what bundle() threw
  changedRuntimes,            \* what applyRuntimes returned
  returned,                   \* what bundle() returned
  hashCalls,                  \* getHashes evaluations of this run
  stores,                     \* storeResult calls of this run
  trace,                      \* operations invoked in this run, in order
  priorGraph,                 \* the predecessor's bundle graph as it was at
                              \* the start of the run
  signal,                     \* the build request's AbortSignal
  build,                      \* locals of the build request's run, its
                              \* position and its outcome
  lastIndex                   \* WEBPACK_IMPORT_REGEX.lastIndex of the SSR
                              \* resolver module

procVars == <<options, dumpFails, resident, graphs, runs, lastHash>>
runVars == <<pc, assetGraph, predecessor, probe, input, configs, devDepRequests, invalidations, keys,
             previousBundleGraphResult, internalBundleGraph, tasks, error,
             changedRuntimes, returned, hashCalls, stores, trace>>
vars == <<options, dumpFails, resident, graphs, runs, lastHash, pc, assetGraph,
          predecessor, probe, input,
          configs, devDepRequests, invalidations, keys,
          previousBundleGraphResult, internalBundleGraph, tasks, error,
          changedRuntimes, returned, hashCalls, stores, trace, priorGraph,
          signal, build, lastIndex>>

----------------------------------------------------------------------------
(* Pure helpers *)

RECURSIVE Join(_)
\* array.join('')
Join(seqOfStr) ==
  IF seqOfStr = <<>> THEN <<>> ELSE Head(seqOfStr) \o Join(Tail(seqOfStr))

\* hashString: an injective digest, tagged so that a key is never its input.
hashString(s) == <<"#">> \o s

\* getInvalidationHash: the invalidations in a canonical order.
getInvalidationHash(invs) ==
  (IF "config" \in invs THEN <<"i:config">> ELSE <<>>)
    \o (IF "option" \in invs THEN <<"i:option">> ELSE <<>>)

MapSeq(s, F(_)) == [i \in 1..Len(s) |-> F(s[i])]
Range(s) == {s[i] : i \in 1..Len(s)}

\* The asset nodes of a bundle graph: each asset with the asset graph its
\* content comes from.
AssetNodes(assets, graphHash) == {<<a, graphHash>> : a \in Range(assets)}

HashOf(e) == e.hash

cacheKeyOf(version, graphHash, cfgs, devDeps, invs, mode) ==
  hashString(version \o graphHash \o Join(MapSeq(cfgs, HashOf))
             \o Join(MapSeq(devDeps, HashOf)) \o getInvalidationHash(invs)
             \o <<mode>>)

\* Mutant of bundlerHashOf: the mode is hashed into the bundler hash as well.
bundlerHashOf_ReadsMode(version, pluginName, cfgs) ==
  hashString(version \o <<pluginName>> \o Join(MapSeq(cfgs, HashOf))
             \o <<options.mode>>)

\* Line 438
bundlerHashOf(version, pluginName, cfgs) ==
  hashString(version \o <<pluginName>> \o Join(MapSeq(cfgs, HashOf)))

\* Mutant of getHashes: the previous asset-graph hash leaks into the cache key.
getHashes_ReadsPreviousHash ==
  [cacheKey |-> cacheKeyOf(PARCEL_VERSION,
                            assetGraph.hash \o input.previousAssetGraphHash,
                            configs, devDepRequests, invalidations, options.mode),
   bundlerHash |-> bundlerHashOf(PARCEL_VERSION, BundlerPlugin.name, configs)]

\* BundlerRunner.getHashes, reading the runner's state.
getHashes ==
  [cacheKey |-> cacheKeyOf(PARCEL_VERSION, assetGraph.hash, configs,
                            devDepRequests, invalidations, options.mode),
   bundlerHash |-> bundlerHashOf(PARCEL_VERSION, BundlerPlugin.name, configs)]

\* What one getHashes evaluation read and produced.
HashCall(h) ==
  [version |-> PARCEL_VERSION, graphHash |-> assetGraph.hash,
   configHashes |-> MapSeq(configs, HashOf),
   devDepHashes |-> MapSeq(devDepRequests, HashOf),
   devDepKeys |-> {devDepRequests[i].key : i \in 1..Len(devDepRequests)},
   invalidationHash |-> getInvalidationHash(invalidations),
   mode |-> options.mode, plugin |-> BundlerPlugin.name,
   rest |-> [safeToIncrementallyBundle |-> assetGraph.safeToIncrementallyBundle,
             previousAssetGraphHash |-> input.previousAssetGraphHash,
             shouldDisableCache |-> options.shouldDisableCache],
   cacheKey |-> h.cacheKey, bundlerHash |-> h.bundlerHash]

\* await dumpGraphToGraphViz(graph, name): the snapshot is attempted; when the
\* facility fails the failure stays inside it.
dumpGraphToGraphViz(name) ==
  IF dumpFails THEN <<Ev("dump", name), Ev("dumpFailed", name)>>
               ELSE <<Ev("dump", name)>>

\* Map.set on an insertion-ordered map held as a sequence of entries.
MapSet(m, key, entry) ==
  IF \E i \in 1..Len(m) : m[i].key = key
    THEN [i \in 1..Len(m) |-> IF m[i].key = key THEN entry ELSE m[i]]
    ELSE Append(m, entry)

\* Line 182: the template literal `${specifier}:${resolveFrom}`, a string
\* concatenation (a project path is already a relative path string).
DevDepKey(specifier, resolveFrom) == specifier \o ":" \o resolveFrom

\* A DevDepRequest: the record createDevDependency produces.
DevDepRequest(specifier, resolveFrom, hash) ==
  [key |-> DevDepKey(specifier, resolveFrom), hash |-> hash,
   specifier |-> specifier, resolveFrom |-> resolveFrom]

\* createDevDependency + runDevDepRequest: the record registered for a plugin.
DevDep(specifier, resolveFrom) ==
  DevDepRequest(specifier, resolveFrom, <<"d:" , specifier>>)

\* Lines 180-185: this.devDepRequests.set(key, devDepRequest).
setDevDepRequest(m, d) == MapSet(m, DevDepKey(d.specifier, d.resolveFrom), d)

runDevDepRequest(m, specifier, resolveFrom) ==
  setDevDepRequest(m, DevDep(specifier, resolveFrom))

\* api.getPreviousResult(ifMatch) of the request for asset graph `hash`.
getPreviousResult(hash, ifMatch) ==
  IF resident[hash].result.kind # "none" /\ resident[hash].cacheKey = ifMatch
    THEN resident[hash].result
    ELSE NoValue

\* api.getRequestResult('BundleGraph:' + hash); a throw is caught by the caller.
getRequestResult(hash) == resident[hash].result

----------------------------------------------------------------------------
NoProbe == [found |-> FALSE, repeated |-> FALSE]

\* The resident store holds, for this asset graph, a result computed under the
\* same plugin configuration: the build repeats an earlier one.
RepeatsStoredBuild(bundlerHash) ==
  /\ resident[assetGraph.hash].result.kind = "record"
  /\ resident[assetGraph.hash].result.bundlerHash = bundlerHash

Init ==
  /\ options \in [mode : Modes, shouldDisableCache : BOOLEAN]
  /\ dumpFails = FALSE
  /\ resident = [h \in GraphHashes |-> NoEntry]
  /\ graphs = [id \in 1..MaxRuns |-> FreeGraph]
  /\ runs = 0
  /\ lastHash = NoStr
  /\ pc = "idle"
  /\ assetGraph = [hash |-> NoStr, safeToIncrementallyBundle |-> FALSE]
  /\ predecessor = NoValue
  /\ probe = NoProbe
  /\ input = [previousAssetGraphHash |-> NoStr, changedAssets |-> <<>>]
  /\ configs = <<>>
  /\ devDepRequests = <<>>
  /\ invalidations = {}
  /\ keys = [cacheKey |-> NoStr, bundlerHash |-> NoStr]
  /\ previousBundleGraphResult = NoValue
  /\ internalBundleGraph = 0
  /\ tasks = <<>>
  /\ error = NoError
  /\ changedRuntimes = {}
  /\ returned = NoValue
  /\ hashCalls = <<>>
  /\ stores = <<>>
  /\ trace = <<>>
  /\ priorGraph = FreeGraph
  /\ signal = [aborted |-> FALSE]
  /\ build = BuildStart
  /\ lastIndex = 0

\* Bundle graphs no stored result refers to are unreachable and collected.
collectGarbage ==
  [id \in DOMAIN graphs |->
     IF \E h \in GraphHashes : resident[h].result.bundleGraph = id
       THEN graphs[id] ELSE FreeGraph]

\* createBundleGraphRequest(...).run: a new BundlerRunner for the asset graph
\* handed over by the pipeline.
BeginRun ==
  /\ pc \in {"idle", "done", "failed"}
  /\ runs < MaxRuns
  /\ \E h \in GraphHashes, safe \in BOOLEAN, prev \in {NoStr, lastHash} :
       /\ assetGraph' = [hash |-> h, safeToIncrementallyBundle |-> safe]
       /\ input' = [previousAssetGraphHash |-> prev,
                    changedAssets |-> ChangedAssets(h, lastHash)]
       /\ predecessor' = IF prev = NoStr THEN NoValue ELSE getRequestResult(prev)
       /\ priorGraph' = IF prev = NoStr \/ getRequestResult(prev).kind = "none"
                          THEN FreeGraph
                          ELSE graphs[getRequestResult(prev).bundleGraph]
       /\ lastHash' = h
  /\ probe' = NoProbe
  /\ runs' = runs + 1
  /\ pc' = "loadConfigs"
  /\ configs' = <<>>
  /\ devDepRequests' = <<>>
  /\ invalidations' = {}
  /\ keys' = [cacheKey |-> NoStr, bundlerHash |-> NoStr]
  /\ previousBundleGraphResult' = NoValue
  /\ internalBundleGraph' = 0
  /\ tasks' = <<>>
  /\ error' = NoError
  /\ changedRuntimes' = {}
  /\ returned' = NoValue
  /\ hashCalls' = <<>>
  /\ stores' = <<>>
  /\ trace' = <<>>
  /\ graphs' = collectGarbage
  /\ UNCHANGED <<options, dumpFails, resident, signal, build, lastIndex>>

\* storeResult(result, cacheKey) of the request for the current asset graph.
storeResult(result, key) ==
  [resident EXCEPT ![assetGraph.hash] = [result |-> result, cacheKey |-> key]]

\* getConfigHash of a loaded plugin config.
PluginConfig(plugin, profile) ==
  [key |-> plugin.name,
   hash |-> IF plugin.name = BundlerPlugin.name
              THEN profile.bundler
            ELSE IF plugin \in Range(Namers)
              THEN <<profile.namer, plugin.name>>
            ELSE <<"k:", plugin.name>>]

\* config.devDeps declared by the bundler's configuration file.
ConfigDevDeps(bundlerConfigHash) ==
  IF bundlerConfigHash = <<"c2">> THEN <<"preset">> ELSE <<>>

RECURSIVE loadConfigDevDeps(_, _)
loadConfigDevDeps(m, specifiers) ==
  IF specifiers = <<>> THEN m
  ELSE loadConfigDevDeps(runDevDepRequest(m, Head(specifiers), "config"),
                         Tail(specifiers))

\* Mutant of LoadedConfigs: the configs of the runtimes are not loaded.
LoadedConfigs_SkipsRuntimes(profile) ==
  <<PluginConfig(BundlerPlugin, profile)>>
    \o MapSeq(Namers, LAMBDA n : PluginConfig(n, profile))

\* The configs map loadConfigs builds: bundler, then namers, then runtimes.
LoadedConfigs(profile) ==
  <<PluginConfig(BundlerPlugin, profile)>>
    \o MapSeq(Namers, LAMBDA n : PluginConfig(n, profile))
    \o MapSeq(Runtimes, LAMBDA r : PluginConfig(r, profile))

\* loadConfigs(): bundler, then every namer, then every runtime.
LoadConfigs ==
  /\ pc = "loadConfigs"
  /\ \E profile \in ConfigProfiles :
       /\ configs' = LoadedConfigs(profile)
       /\ devDepRequests' = loadConfigDevDeps(devDepRequests,
                                               ConfigDevDeps(profile.bundler))
  /\ invalidations' = invalidations \cup {"config"}
  /\ trace' = Append(trace, Ev("loadConfigs", ""))
  /\ pc' = "probe"
  /\ UNCHANGED <<options, dumpFails, resident, graphs, runs, lastHash,
                 assetGraph, predecessor, probe, input, keys,
                 previousBundleGraphResult, internalBundleGraph, tasks,
                 error, changedRuntimes, returned, hashCalls, stores,
                 priorGraph, signal, build, lastIndex>>

\* Mutant of ProbeHit: the hit is noted but bundle() does not return on it.
ProbeHit_FallsThrough ==
  /\ pc = "probe"
  /\ LET h == getHashes
         previousResult == getPreviousResult(assetGraph.hash, h.cacheKey)
     IN /\ previousResult.kind # "none"
        /\ keys' = h
        /\ hashCalls' = Append(hashCalls, HashCall(h))
        /\ probe' = [found |-> TRUE, repeated |-> RepeatsStoredBuild(h.bundlerHash)]
  /\ trace' = trace \o <<Ev("getHashes", ""), Ev("getPreviousResult", "")>>
  /\ pc' = "durable"
  /\ UNCHANGED <<options, dumpFails, resident, graphs, runs, lastHash,
                 assetGraph, predecessor, input, configs, devDepRequests,
                 invalidations, previousBundleGraphResult,
                 internalBundleGraph, tasks, error, changedRuntimes,
                 returned, stores, priorGraph, signal, build, lastIndex>>

\* First getHashes and the resident probe: the stored result matches.
ProbeHit ==
  /\ pc = "probe"
  /\ LET h == getHashes
         previousResult == getPreviousResult(assetGraph.hash, h.cacheKey)
     IN /\ previousResult.kind # "none"
        /\ keys' = h
        /\ hashCalls' = Append(hashCalls, HashCall(h))
        /\ returned' = previousResult
        /\ probe' = [found |-> TRUE, repeated |-> RepeatsStoredBuild(h.bundlerHash)]
  /\ trace' = trace \o <<Ev("getHashes", ""), Ev("getPreviousResult", "")>>
  /\ pc' = "done"
  /\ UNCHANGED <<options, dumpFails, resident, graphs, runs, lastHash,
                 assetGraph, predecessor, input, configs, devDepRequests,
                 invalidations, previousBundleGraphResult,
                 internalBundleGraph, tasks, error, changedRuntimes, stores,
                 priorGraph, signal, build, lastIndex>>

\* First getHashes and the resident probe: nothing stored under the key.
ProbeMiss ==
  /\ pc = "probe"
  /\ LET h == getHashes
         previousResult == getPreviousResult(assetGraph.hash, h.cacheKey)
     IN /\ previousResult.kind = "none"
        /\ keys' = h
        /\ hashCalls' = Append(hashCalls, HashCall(h))
        /\ probe' = [found |-> FALSE, repeated |-> RepeatsStoredBuild(h.bundlerHash)]
  /\ trace' = trace \o <<Ev("getHashes", ""), Ev("getPreviousResult", "")>>
  /\ pc' = "durable"
  /\ UNCHANGED <<options, dumpFails, resident, graphs, runs, lastHash,
                 assetGraph, predecessor, input, configs, devDepRequests,
                 invalidations, previousBundleGraphResult,
                 internalBundleGraph, tasks, error, changedRuntimes,
                 returned, stores, priorGraph, signal, build, lastIndex>>

\* Mutant of DurableSkip: the durable store is read although caching is
\* disabled.
DurableSkip_StillReads ==
  /\ pc = "durable"
  /\ options.shouldDisableCache
  /\ trace' = Append(trace, Ev("getBuffer", ""))
  /\ pc' = "incremental"
  /\ UNCHANGED <<options, dumpFails, resident, graphs, runs, lastHash,
                 assetGraph, predecessor, probe, input, configs,
                 devDepRequests, invalidations, keys,
                 previousBundleGraphResult, internalBundleGraph, tasks,
                 error, changedRuntimes, returned, hashCalls, stores,
                 priorGraph, signal, build, lastIndex>>

\* options.shouldDisableCache: the durable store is not consulted.
DurableSkip ==
  /\ pc = "durable"
  /\ options.shouldDisableCache
  /\ pc' = "incremental"
  /\ UNCHANGED <<options, dumpFails, resident, graphs, runs, lastHash,
                 assetGraph, predecessor, probe, input, configs,
                 devDepRequests, invalidations, keys,
                 previousBundleGraphResult, internalBundleGraph, tasks,
                 error, changedRuntimes, returned, hashCalls, stores, trace,
                 priorGraph, signal, build, lastIndex>>

\* cache.getBuffer(cacheKey) finds nothing.
DurableMiss ==
  /\ pc = "durable"
  /\ ~options.shouldDisableCache
  /\ trace' = Append(trace, Ev("getBuffer", ""))
  /\ pc' = "incremental"
  /\ UNCHANGED <<options, dumpFails, resident, graphs, runs, lastHash,
                 assetGraph, predecessor, probe, input, configs,
                 devDepRequests, invalidations, keys,
                 previousBundleGraphResult, internalBundleGraph, tasks,
                 error, changedRuntimes, returned, hashCalls, stores,
                 priorGraph, signal, build, lastIndex>>

\* The bundle graph a blob of the durable store deserializes to.
DeserializedGraph ==
  [bundles |-> <<[MkBundle(<<"dist">>, FALSE, "H1")
                    EXCEPT !.name = <<"x">>, !.displayName = <<"x">>]>>,
   origin |-> "deserializeToCache",
   assets |-> {<<"a1", <<"cached">>>>}]

\* The record the durable-hit path hands to storeResult.
DurableStored(graph) ==
  [kind |-> "record", fields |-> {"bundleGraph", "changedAssets"},
   bundleGraph |-> graph, bundlerHash |-> NoStr, changedAssets |-> {}]

\* What the durable-hit path returns.
DurableReturned(graph) == GraphValue(graph)

\* Mutant of DurableHit: the deserialized graph is returned without being put
\* into the resident store.
DurableHit_NoStore ==
  /\ pc = "durable"
  /\ ~options.shouldDisableCache
  /\ LET graph == runs
     IN /\ graphs' = [graphs EXCEPT ![graph] = DeserializedGraph]
        /\ returned' = DurableReturned(graph)
  /\ trace' = trace \o <<Ev("getBuffer", ""), Ev("deserializeToCache", "")>>
  /\ pc' = "done"
  /\ UNCHANGED <<options, dumpFails, resident, runs, lastHash, assetGraph,
                 predecessor, probe, input, configs, devDepRequests,
                 invalidations, keys, previousBundleGraphResult,
                 internalBundleGraph, tasks, error, changedRuntimes,
                 hashCalls, stores, priorGraph, signal, build, lastIndex>>

\* cache.getBuffer(cacheKey) finds a blob written by an earlier process.
DurableHit ==
  /\ pc = "durable"
  /\ ~options.shouldDisableCache
  /\ LET graph == runs
         stored == DurableStored(graph)
     IN /\ graphs' = [graphs EXCEPT ![graph] = DeserializedGraph]
        /\ resident' = storeResult(stored, keys.cacheKey)
        /\ stores' = Append(stores, [result |-> stored, key |-> keys.cacheKey])
        /\ returned' = DurableReturned(graph)
  /\ trace' = trace \o <<Ev("getBuffer", ""), Ev("deserializeToCache", ""),
                         Ev("storeResult", "")>>
  /\ pc' = "done"
  /\ UNCHANGED <<options, dumpFails, runs, lastHash, assetGraph, predecessor,
                 probe, input, configs, devDepRequests, invalidations, keys,
                 previousBundleGraphResult, internalBundleGraph, tasks,
                 error, changedRuntimes, hashCalls, priorGraph, signal,
                 build, lastIndex>>

\* Mutant of FetchAttempted: the flag of the asset graph is not consulted.
FetchAttempted_IgnoresFlag == input.previousAssetGraphHash # NoStr

\* Line 238: the preceding request's result is asked for.
FetchAttempted ==
  assetGraph.safeToIncrementallyBundle /\ input.previousAssetGraphHash # NoStr

\* Lines 236-247: fetch the preceding request's result when permitted; a throw
\* of getRequestResult is caught and leaves the variable undefined.
FetchPrevious(throws) ==
  IF FetchAttempted /\ ~throws
    THEN getRequestResult(input.previousAssetGraphHash)
    ELSE NoValue

\* Mutant of SafeAfterCheck: the bundler hashes are not compared.
SafeAfterCheck_IgnoresHash(previous, bundlerHash) ==
  IF previous.kind = "none"
    THEN FALSE
    ELSE assetGraph.safeToIncrementallyBundle

\* Mutant of SafeAfterCheck: the flag is cleared only on a hash mismatch.
SafeAfterCheck_KeepsFlagWhenAbsent(previous, bundlerHash) ==
  IF previous.kind # "none" /\ previous.bundlerHash # bundlerHash
    THEN FALSE
    ELSE assetGraph.safeToIncrementallyBundle

\* Lines 248-253: the flag after the comparison of bundler hashes.
SafeAfterCheck(previous, bundlerHash) ==
  IF previous.kind = "none" \/ previous.bundlerHash # bundlerHash
    THEN FALSE
    ELSE assetGraph.safeToIncrementallyBundle

\* Mutant of IncrementalCheck: the lookup is not guarded by try/catch, so its
\* error leaves bundle().
IncrementalCheck_Rethrows ==
  /\ pc = "incremental"
  /\ \E throws \in {FALSE, FetchAttempted} :
       LET previous == FetchPrevious(throws)
           safe == SafeAfterCheck(previous, keys.bundlerHash)
       IN /\ previousBundleGraphResult' = previous
          /\ assetGraph' = [assetGraph EXCEPT !.safeToIncrementallyBundle =
                              IF throws THEN @ ELSE safe]
          /\ pc' = IF throws THEN "failed"
                   ELSE IF safe THEN "patch" ELSE "fromAssetGraph"
          /\ error' = IF throws THEN PlainError("getRequestResult") ELSE error
          /\ trace' = IF ~FetchAttempted THEN trace
                      ELSE IF throws
                        THEN trace \o <<Ev("getRequestResult", ""),
                                        Ev("throw", "getRequestResult")>>
                      ELSE Append(trace, Ev("getRequestResult", ""))
  /\ UNCHANGED <<options, dumpFails, resident, graphs, runs, lastHash,
                 predecessor, probe, input, configs, devDepRequests,
                 invalidations, keys, internalBundleGraph, tasks,
                 changedRuntimes, returned, hashCalls, stores, priorGraph,
                 signal, build, lastIndex>>

\* Lines 236-260: the incremental-reuse decision.
IncrementalCheck ==
  /\ pc = "incremental"
  /\ \E throws \in {FALSE, FetchAttempted} :
       LET previous == FetchPrevious(throws)
           safe == SafeAfterCheck(previous, keys.bundlerHash)
       IN /\ previousBundleGraphResult' = previous
          /\ assetGraph' = [assetGraph EXCEPT !.safeToIncrementallyBundle = safe]
          /\ pc' = IF safe THEN "patch" ELSE "fromAssetGraph"
          /\ trace' = IF ~FetchAttempted THEN trace
                      ELSE IF throws
                        THEN trace \o <<Ev("getRequestResult", ""),
                                        Ev("throw", "getRequestResult")>>
                      ELSE Append(trace, Ev("getRequestResult", ""))
  /\ UNCHANGED <<options, dumpFails, resident, graphs, runs, lastHash,
                 predecessor, probe, input, configs, devDepRequests,
                 invalidations, keys, internalBundleGraph, tasks, error,
                 changedRuntimes, returned, hashCalls, stores, priorGraph,
                 signal, build, lastIndex>>

\* Mutant of AfterBundleFinally: a failure of the snapshot taken in the finally
\* block leaves the block and replaces the error being propagated.
AfterBundleFinally_DumpThrows(graph, pending) ==
  IF graph = 0 THEN PlainError("AssertionError")
  ELSE IF dumpFails THEN PlainError("dumpGraphToGraphViz")
  ELSE pending

\* Line 337: invariant(internalBundleGraph != null) inside the finally block;
\* when it fails, its AssertionError replaces the error being propagated.
AfterBundleFinally(graph, pending) ==
  IF graph = 0 THEN PlainError("AssertionError") ELSE pending

\* Mutant of PatchCalls: the loop skips the first changed asset.
PatchCalls_SkipsFirst(changed) ==
  MapSeq(SubSeq(changed, 2, Len(changed)), LAMBDA a : Ev("updateAsset", a))

\* Lines 262-264: one updateAsset call per changed asset, in map order.
PatchCalls(changed) == MapSeq(changed, LAMBDA a : Ev("updateAsset", a))

\* Lines 262-264: internalBundleGraph.updateAsset(changedAsset) replaces, in
\* the graph object itself, the node of every changed asset.
updateAssets(graph, changed) ==
  [graph EXCEPT !.assets =
     {n \in @ : n[1] \notin Range(changed)}
       \cup AssetNodes(changed, assetGraph.hash)]

\* Lines 260-264: the incremental path takes the preceding result's graph and
\* patches it with every changed asset.
PatchOk ==
  /\ pc = "patch"
  /\ internalBundleGraph' = previousBundleGraphResult.bundleGraph
  /\ graphs' = [graphs EXCEPT ![previousBundleGraphResult.bundleGraph] =
                  updateAssets(@, input.changedAssets)]
  /\ trace' = trace \o PatchCalls(input.changedAssets)
                    \o dumpGraphToGraphViz("after_bundle")
  /\ pc' = "bundlerDevDep"
  /\ UNCHANGED <<options, dumpFails, resident, runs, lastHash, assetGraph,
                 predecessor, probe, input, configs, devDepRequests,
                 invalidations, keys, previousBundleGraphResult, tasks,
                 error, changedRuntimes, returned, hashCalls, stores,
                 priorGraph, signal, build, lastIndex>>

\* updateAsset throws at the k-th changed asset.
PatchThrows ==
  /\ pc = "patch"
  /\ \E k \in 1..Len(input.changedAssets) :
       /\ trace' = trace \o PatchCalls(SubSeq(input.changedAssets, 1, k))
                         \o <<Ev("throw", "updateAsset")>>
                         \o dumpGraphToGraphViz("after_bundle")
       /\ graphs' = [graphs EXCEPT ![previousBundleGraphResult.bundleGraph] =
                       updateAssets(@, SubSeq(input.changedAssets, 1, k - 1))]
  /\ internalBundleGraph' = previousBundleGraphResult.bundleGraph
  /\ error' = AfterBundleFinally(previousBundleGraphResult.bundleGraph,
                                 Diagnostic(BundlerPlugin.name))
  /\ pc' = "failed"
  /\ UNCHANGED <<options, dumpFails, resident, runs, lastHash, assetGraph,
                 predecessor, probe, input, configs, devDepRequests,
                 invalidations, keys, previousBundleGraphResult, tasks,
                 changedRuntimes, returned, hashCalls, stores, priorGraph,
                 signal, build, lastIndex>>

\* Line 266: InternalBundleGraph.fromAssetGraph(graph) creates the working graph.
FromAssetGraphOk ==
  /\ pc = "fromAssetGraph"
  /\ graphs' = [graphs EXCEPT ![runs] =
                  [bundles |-> <<>>, origin |-> "fromAssetGraph",
                   assets |-> AssetNodes(AssetsOf(assetGraph.hash),
                                         assetGraph.hash)]]
  /\ internalBundleGraph' = runs
  /\ trace' = trace \o <<Ev("fromAssetGraph", "")>>
                    \o dumpGraphToGraphViz("before_bundle")
  /\ pc' = "bundle"
  /\ UNCHANGED <<options, dumpFails, resident, runs, lastHash, assetGraph,
                 predecessor, probe, input, configs, devDepRequests,
                 invalidations, keys, previousBundleGraphResult, tasks,
                 error, changedRuntimes, returned, hashCalls, stores,
                 priorGraph, signal, build, lastIndex>>

\* fromAssetGraph throws: no working graph exists when the finally block runs.
FromAssetGraphThrows ==
  /\ pc = "fromAssetGraph"
  /\ trace' = trace \o <<Ev("fromAssetGraph", ""), Ev("throw", "fromAssetGraph")>>
  /\ error' = AfterBundleFinally(internalBundleGraph,
                                 Diagnostic(BundlerPlugin.name))
  /\ pc' = "failed"
  /\ UNCHANGED <<options, dumpFails, resident, graphs, runs, lastHash,
                 assetGraph, predecessor, probe, input, configs,
                 devDepRequests, invalidations, keys,
                 previousBundleGraphResult, internalBundleGraph, tasks,
                 changedRuntimes, returned, hashCalls, stores, priorGraph,
                 signal, build, lastIndex>>

\* Mutant of ShouldOptimize: optimize runs in every mode.
ShouldOptimize_Always(mode) == mode \in Modes

\* Line 300: the mode test that gates optimize.
ShouldOptimize(mode) == mode = "production"

\* Lines 292-298: bundler.bundle fills the working graph; line 300 then reads
\* pluginOptions.mode through the options proxy, which registers an option
\* invalidation.
BundleOk ==
  /\ pc = "bundle"
  /\ graphs' = [graphs EXCEPT ![internalBundleGraph].bundles =
                                 BundlesFor(assetGraph.hash, configs[1].hash)]
  /\ invalidations' = invalidations \cup {"option"}
  /\ IF ShouldOptimize(options.mode)
       THEN /\ trace' = Append(trace, Ev("bundle", ""))
            /\ pc' = "optimize"
       ELSE /\ trace' = trace \o <<Ev("bundle", "")>>
                              \o dumpGraphToGraphViz("after_bundle")
            /\ pc' = "bundlerDevDep"
  /\ UNCHANGED <<options, dumpFails, resident, runs, lastHash, assetGraph,
                 predecessor, probe, input, configs, devDepRequests, keys,
                 previousBundleGraphResult, internalBundleGraph, tasks,
                 error, changedRuntimes, returned, hashCalls, stores,
                 priorGraph, signal, build, lastIndex>>

\* Mutant of BundleThrows: a failed bundler.bundle is tried again.
BundleThrows_Retries ==
  /\ pc = "bundle"
  /\ trace' = trace \o <<Ev("bundle", ""), Ev("throw", "bundle")>>
  /\ error' = error
  /\ pc' = "bundle"
  /\ UNCHANGED <<options, dumpFails, resident, graphs, runs, lastHash,
                 assetGraph, predecessor, probe, input, configs,
                 devDepRequests, invalidations, keys,
                 previousBundleGraphResult, internalBundleGraph, tasks,
                 changedRuntimes, returned, hashCalls, stores, priorGraph,
                 signal, build, lastIndex>>

\* Lines 292-297 and 330-344: bundler.bundle throws.
BundleThrows ==
  /\ pc = "bundle"
  /\ trace' = trace \o <<Ev("bundle", ""), Ev("throw", "bundle")>>
                    \o dumpGraphToGraphViz("after_bundle")
  /\ error' = AfterBundleFinally(internalBundleGraph,
                                 Diagnostic(BundlerPlugin.name))
  /\ pc' = "failed"
  /\ UNCHANGED <<options, dumpFails, resident, graphs, runs, lastHash,
                 assetGraph, predecessor, probe, input, configs,
                 devDepRequests, invalidations, keys,
                 previousBundleGraphResult, internalBundleGraph, tasks,
                 changedRuntimes, returned, hashCalls, stores, priorGraph,
                 signal, build, lastIndex>>

\* Lines 301-327: bundler.optimize in production mode.
OptimizeOk ==
  /\ pc = "optimize"
  /\ trace' = trace \o <<Ev("optimize", "")>>
                    \o dumpGraphToGraphViz("after_optimize")
                    \o dumpGraphToGraphViz("after_bundle")
  /\ pc' = "bundlerDevDep"
  /\ UNCHANGED <<options, dumpFails, resident, graphs, runs, lastHash,
                 assetGraph, predecessor, probe, input, configs,
                 devDepRequests, invalidations, keys,
                 previousBundleGraphResult, internalBundleGraph, tasks,
                 error, changedRuntimes, returned, hashCalls, stores,
                 priorGraph, signal, build, lastIndex>>

OptimizeThrows ==
  /\ pc = "optimize"
  /\ trace' = trace \o <<Ev("optimize", ""), Ev("throw", "optimize")>>
                    \o dumpGraphToGraphViz("after_optimize")
                    \o dumpGraphToGraphViz("after_bundle")
  /\ error' = AfterBundleFinally(internalBundleGraph,
                                 Diagnostic(BundlerPlugin.name))
  /\ pc' = "failed"
  /\ UNCHANGED <<options, dumpFails, resident, graphs, runs, lastHash,
                 assetGraph, predecessor, probe, input, configs,
                 devDepRequests, invalidations, keys,
                 previousBundleGraphResult, internalBundleGraph, tasks,
                 changedRuntimes, returned, hashCalls, stores, priorGraph,
                 signal, build, lastIndex>>

\* bundleGraph.getBundles({includeInline}): indices of the bundles selected.
getBundles(graph, includeInline) ==
  LET all == graphs[graph].bundles
      F[i \in 0..Len(all)] ==
        IF i = 0 THEN <<>>
        ELSE IF includeInline \/ ~all[i].isInline
               THEN Append(F[i - 1], i) ELSE F[i - 1]
  IN F[Len(all)]

\* Line 446: the bundles nameBundles names.
BundlesToName(graph) == getBundles(graph, TRUE)

NewTask(bundle) ==
  [bundle |-> bundle, next |-> 1, st |-> "running", calls |-> <<>>,
   error |-> NoError]

\* Lines 346-358 and 442-449: the bundler's dev dependency is registered, then
\* nameBundles starts one nameBundle task per bundle.
RegisterBundlerDevDep ==
  /\ pc = "bundlerDevDep"
  /\ devDepRequests' = runDevDepRequest(devDepRequests, BundlerPlugin.name,
                                        BundlerPlugin.resolveFrom)
  /\ tasks' = MapSeq(BundlesToName(internalBundleGraph), NewTask)
  /\ trace' = trace \o <<Ev("devDep", BundlerPlugin.name), Ev("nameBundles", "")>>
  /\ pc' = "naming"
  /\ UNCHANGED <<options, dumpFails, resident, graphs, runs, lastHash,
                 assetGraph, predecessor, probe, input, configs,
                 invalidations, keys, previousBundleGraphResult,
                 internalBundleGraph, error, changedRuntimes, returned,
                 hashCalls, stores, priorGraph, signal, build, lastIndex>>

Throws == <<"<throw>">>

RECURSIVE ReplaceFirst(_, _, _)
\* String.prototype.replace with a string pattern: the first occurrence only.
ReplaceFirst(str, token, by) ==
  IF str = <<>> THEN <<>>
  ELSE IF Head(str) = token THEN <<by>> \o Tail(str)
  ELSE <<Head(str)>> \o ReplaceFirst(Tail(str), token, by)

\* Lines 498-501
DisplayName(name, hashReference) ==
  IF hashReference \in Range(name)
    THEN ReplaceFirst(name, hashReference, "[hash]")
    ELSE name

\* Mutant of TaskAfterCall: a namer's error is wrapped with the bundler's
\* name as origin.
TaskAfterCall_LosesOrigin(t, namerName, r, last) ==
  LET called == [t EXCEPT !.calls = Append(@, [namer |-> namerName, result |-> r])]
  IN IF r = Throws
       THEN [called EXCEPT !.st = "failed",
                           !.error = Diagnostic(BundlerPlugin.name)]
     ELSE IF r # NullStr
       THEN [called EXCEPT !.st = "named"]
     ELSE IF last
       THEN [called EXCEPT !.st = "failed",
                           !.error = PlainError("Unable to name bundle")]
     ELSE [called EXCEPT !.next = @ + 1]

\* Mutant of TaskAfterCall: a name returned by a namer that is not the last
\* does not stop the loop.
TaskAfterCall_KeepsAsking(t, namerName, r, last) ==
  LET called == [t EXCEPT !.calls = Append(@, [namer |-> namerName, result |-> r])]
  IN IF r = Throws
       THEN [called EXCEPT !.st = "failed", !.error = Diagnostic(namerName)]
     ELSE IF r # NullStr /\ last
       THEN [called EXCEPT !.st = "named"]
     ELSE IF last
       THEN [called EXCEPT !.st = "failed",
                           !.error = PlainError("Unable to name bundle")]
     ELSE [called EXCEPT !.next = @ + 1]

\* Mutant of TaskAfterCall: the exhaustion error is thrown inside the try block
\* and leaves wrapped as the last namer's diagnostic.
TaskAfterCall_WrapsExhaustion(t, namerName, r, last) ==
  LET called == [t EXCEPT !.calls = Append(@, [namer |-> namerName, result |-> r])]
  IN IF r = Throws
       THEN [called EXCEPT !.st = "failed", !.error = Diagnostic(namerName)]
     ELSE IF r # NullStr
       THEN [called EXCEPT !.st = "named"]
     ELSE IF last
       THEN [called EXCEPT !.st = "failed", !.error = Diagnostic(namerName)]
     ELSE [called EXCEPT !.next = @ + 1]

\* Lines 486-514: what one call of a namer does to its nameBundle task.
\* `last` tells whether the namer is the last of the list.
TaskAfterCall(t, namerName, r, last) ==
  LET called == [t EXCEPT !.calls = Append(@, [namer |-> namerName, result |-> r])]
  IN IF r = Throws
       THEN [called EXCEPT !.st = "failed", !.error = Diagnostic(namerName)]
     ELSE IF r # NullStr
       THEN [called EXCEPT !.st = "named"]
     ELSE IF last
       THEN [called EXCEPT !.st = "failed",
                           !.error = PlainError("Unable to name bundle")]
     ELSE [called EXCEPT !.next = @ + 1]

\* One nameBundle task calls its next namer.  The tasks run under Promise.all:
\* the first task to fail rejects nameBundles, and with it bundle(), while the
\* other tasks keep running.
NamerCall(i) ==
  /\ pc \in {"naming", "failed"}
  /\ tasks[i].st = "running"
  /\ \E r \in {NullStr, Namers[tasks[i].next].proposes, Throws} :
       LET t == tasks[i]
           namer == Namers[t.next]
           after == TaskAfterCall(t, namer.name, r, t.next = Len(Namers))
           b == graphs[internalBundleGraph].bundles[t.bundle]
       IN /\ tasks' = [tasks EXCEPT ![i] = after]
          /\ graphs' = IF after.st = "named"
                         THEN [graphs EXCEPT ![internalBundleGraph].bundles[t.bundle] =
                                 [b EXCEPT !.name = r,
                                           !.displayName = DisplayName(r, b.hashReference)]]
                         ELSE graphs
          /\ IF after.st = "failed" /\ pc = "naming"
               THEN /\ pc' = "failed"
                    /\ error' = after.error
               ELSE UNCHANGED <<pc, error>>
  /\ UNCHANGED <<options, dumpFails, resident, runs, lastHash, assetGraph,
                 predecessor, probe, input, configs, devDepRequests,
                 invalidations, keys, previousBundleGraphResult,
                 internalBundleGraph, changedRuntimes, returned, hashCalls,
                 stores, trace, priorGraph, signal, build, lastIndex>>

RECURSIVE unique(_)
\* unique(array): the first occurrence of every element, in order.
unique(s) ==
  IF s = <<>> THEN <<>>
  ELSE LET init == unique(SubSeq(s, 1, Len(s) - 1))
           last == s[Len(s)]
       IN IF last \in Range(init) THEN init ELSE Append(init, last)

\* joinProjectPath(distDir, name)
joinProjectPath(distDir, name) == distDir \o <<"/">> \o name

\* Lines 464-466
BundleNames(graph, bundles) ==
  MapSeq(bundles, LAMBDA i : joinProjectPath(graphs[graph].bundles[i].distDir,
                                             graphs[graph].bundles[i].name))

\* Mutant of NamesAreUnique: the assertion compares the list with itself.
NamesAreUnique_ComparesSelf(bundleNames) == bundleNames = bundleNames

\* Lines 467-471: assert.deepEqual(bundleNames, unique(bundleNames))
NamesAreUnique(bundleNames) == bundleNames = unique(bundleNames)

\* Mutant of registerNamerDevDeps: the namers' dev dependencies are dropped.
registerNamerDevDeps_Skips(m, namers) == m

RECURSIVE registerNamerDevDeps(_, _)
\* Lines 452-462
registerNamerDevDeps(m, namers) ==
  IF namers = <<>> THEN m
  ELSE registerNamerDevDeps(
         runDevDepRequest(m, Head(namers).name, Head(namers).resolveFrom),
         Tail(namers))

\* Mutant of AllNamed: nameBundles does not await the nameBundle promises.
AllNamed_NoAwait == \A i \in 1..Len(tasks) : tasks[i].st \in {"named", "running"}

\* Line 447: await Promise.all(...) has resolved.
AllNamed == \A i \in 1..Len(tasks) : tasks[i].st = "named"

\* Mutant of NameBundlesOk: the first nameBundle promise to resolve lets
\* nameBundles go on (Promise.race in place of Promise.all).
NameBundlesOk_FirstResolved ==
  /\ pc = "naming"
  /\ \E i \in 1..Len(tasks) : tasks[i].st = "named"
  /\ devDepRequests' = registerNamerDevDeps(devDepRequests, Namers)
  /\ trace' = trace \o MapSeq(Namers, LAMBDA n : Ev("devDep", n.name))
                    \o <<Ev("assertUnique", "")>>
  /\ pc' = "applyRuntimes"
  /\ UNCHANGED <<options, dumpFails, resident, graphs, runs, lastHash,
                 assetGraph, predecessor, probe, input, configs,
                 invalidations, keys, previousBundleGraphResult,
                 internalBundleGraph, tasks, error, changedRuntimes,
                 returned, hashCalls, stores, priorGraph, signal, build,
                 lastIndex>>

\* Promise.all has resolved: namer dev dependencies, then the uniqueness check.
NameBundlesOk ==
  /\ pc = "naming"
  /\ AllNamed
  /\ NamesAreUnique(BundleNames(internalBundleGraph,
                                BundlesToName(internalBundleGraph)))
  /\ devDepRequests' = registerNamerDevDeps(devDepRequests, Namers)
  /\ trace' = trace \o MapSeq(Namers, LAMBDA n : Ev("devDep", n.name))
                    \o <<Ev("assertUnique", "")>>
  /\ pc' = "applyRuntimes"
  /\ UNCHANGED <<options, dumpFails, resident, graphs, runs, lastHash,
                 assetGraph, predecessor, probe, input, configs,
                 invalidations, keys, previousBundleGraphResult,
                 internalBundleGraph, tasks, error, changedRuntimes,
                 returned, hashCalls, stores, priorGraph, signal, build,
                 lastIndex>>

NameBundlesCollision ==
  /\ pc = "naming"
  /\ AllNamed
  /\ ~NamesAreUnique(BundleNames(internalBundleGraph,
                                 BundlesToName(internalBundleGraph)))
  /\ devDepRequests' = registerNamerDevDeps(devDepRequests, Namers)
  /\ trace' = trace \o MapSeq(Namers, LAMBDA n : Ev("devDep", n.name))
                    \o <<Ev("assertUnique", "")>>
  /\ error' = PlainError("Bundles must have unique names")
  /\ pc' = "failed"
  /\ UNCHANGED <<options, dumpFails, resident, graphs, runs, lastHash,
                 assetGraph, predecessor, probe, input, configs,
                 invalidations, keys, previousBundleGraphResult,
                 internalBundleGraph, tasks, changedRuntimes, returned,
                 hashCalls, stores, priorGraph, signal, build, lastIndex>>

RECURSIVE registerRuntimeDevDeps(_, _)
\* applyRuntimes: one dev dependency per runtime plugin it ran.
registerRuntimeDevDeps(m, runtimes) ==
  IF runtimes = <<>> THEN m
  ELSE registerRuntimeDevDeps(
         runDevDepRequest(m, Head(runtimes).name, Head(runtimes).resolveFrom),
         Tail(runtimes))

\* Lines 360-377: applyRuntimes registers the runtime plugins' dev dependencies
\* in the shared devDepRequests map and returns the assets it changed.
ApplyRuntimesOk ==
  /\ pc = "applyRuntimes"
  /\ \E changed \in {{}, {"rt"}} : changedRuntimes' = changed
  /\ devDepRequests' = registerRuntimeDevDeps(devDepRequests, Runtimes)
  /\ trace' = trace \o <<Ev("applyRuntimes", "")>>
                    \o dumpGraphToGraphViz("after_runtimes")
  /\ pc' = "finalize"
  /\ UNCHANGED <<options, dumpFails, resident, graphs, runs, lastHash,
                 assetGraph, predecessor, probe, input, configs,
                 invalidations, keys, previousBundleGraphResult,
                 internalBundleGraph, tasks, error, returned, hashCalls,
                 stores, priorGraph, signal, build, lastIndex>>

\* Mutant of ApplyRuntimesThrows: the result is stored before the runtimes are
\* applied, so a failing runtime leaves it in the resident store.
ApplyRuntimesThrows_StoresFirst ==
  /\ pc = "applyRuntimes"
  /\ LET stored == ResultRecord(internalBundleGraph, keys.bundlerHash, {})
     IN /\ resident' = storeResult(stored, keys.cacheKey)
        /\ stores' = Append(stores, [result |-> stored, key |-> keys.cacheKey])
  /\ trace' = trace \o <<Ev("storeResult", ""), Ev("applyRuntimes", ""),
                         Ev("throw", "applyRuntimes")>>
  /\ error' = Diagnostic(Runtimes[1].name)
  /\ pc' = "failed"
  /\ UNCHANGED <<options, dumpFails, graphs, runs, lastHash, assetGraph,
                 predecessor, probe, input, configs, devDepRequests,
                 invalidations, keys, previousBundleGraphResult,
                 internalBundleGraph, tasks, changedRuntimes, returned,
                 hashCalls, priorGraph, signal, build, lastIndex>>

\* applyRuntimes throws: the error propagates out of bundle().
ApplyRuntimesThrows ==
  /\ pc = "applyRuntimes"
  /\ trace' = trace \o <<Ev("applyRuntimes", ""), Ev("throw", "applyRuntimes")>>
  /\ error' = Diagnostic(Runtimes[1].name)
  /\ pc' = "failed"
  /\ UNCHANGED <<options, dumpFails, resident, graphs, runs, lastHash,
                 assetGraph, predecessor, probe, input, configs,
                 devDepRequests, invalidations, keys,
                 previousBundleGraphResult, internalBundleGraph, tasks,
                 changedRuntimes, returned, hashCalls, stores, priorGraph,
                 signal, build, lastIndex>>

\* Mutant of FinalResult: the stored record carries the runtime changes too.
FinalResult_KeepsChanged(graph, bundlerHash, changed) ==
  ResultRecord(graph, bundlerHash, changedRuntimes)

\* Lines 396-400: the record bundle() returns and (lines 387-394) stores.
FinalResult(graph, bundlerHash, changed) == ResultRecord(graph, bundlerHash, changed)

\* Mutant of StoreKey: the result is stored under the key of the first pass.
StoreKey_FirstPass(firstKey, updatedKey) == firstKey

\* Line 386: the key the result is stored under.
StoreKey(firstKey, updatedKey) == updatedKey

\* Lines 379-400
Finalize ==
  /\ pc = "finalize"
  /\ LET h == getHashes
         key == StoreKey(keys.cacheKey, h.cacheKey)
         stored == FinalResult(internalBundleGraph, keys.bundlerHash, {})
     IN /\ hashCalls' = Append(hashCalls, HashCall(h))
        /\ resident' = storeResult(stored, key)
        /\ stores' = Append(stores, [result |-> stored, key |-> key])
  /\ returned' = FinalResult(internalBundleGraph, keys.bundlerHash, changedRuntimes)
  /\ trace' = trace \o <<Ev("getBundleGraphHash", ""), Ev("cacheSerializedObject", ""),
                         Ev("getHashes", ""), Ev("storeResult", "")>>
  /\ pc' = "done"
  /\ UNCHANGED <<options, dumpFails, graphs, runs, lastHash, assetGraph,
                 predecessor, probe, input, configs, devDepRequests,
                 invalidations, keys, previousBundleGraphResult,
                 internalBundleGraph, tasks, error, changedRuntimes,
                 priorGraph, signal, build, lastIndex>>

----------------------------------------------------------------------------
(* Observations over one run *)

Threw(op) == \E k \in 1..Len(trace) : trace[k] = Ev("throw", op)
HasEv(op) == \E k \in 1..Len(trace) : trace[k].op = op
CountEv(op) == Cardinality({k \in 1..Len(trace) : trace[k].op = op})
Positions(op) == {k \in 1..Len(trace) : trace[k].op = op}
NamerInvoked == \E i \in 1..Len(tasks) : tasks[i].calls # <<>>
PluginPhaseRan ==
  HasEv("bundle") \/ HasEv("optimize") \/ NamerInvoked \/ HasEv("applyRuntimes")
ProbeDone == pc \notin {"idle", "loadConfigs", "probe"}
TookIncrementalPath ==
  pc = "patch" \/ (internalBundleGraph # 0 /\ ~HasEv("fromAssetGraph"))
TookMissPath == ProbeDone /\ ~probe.found /\ ~HasEv("deserializeToCache")
                  /\ pc \notin {"durable"}
UpdatedAssets ==
  LET at == Positions("updateAsset")
      F[k \in 0..Len(trace)] ==
        IF k = 0 THEN <<>>
        ELSE IF k \in at THEN Append(F[k - 1], trace[k].arg) ELSE F[k - 1]
  IN F[Len(trace)]

Next ==
  \/ BeginRun
  \/ LoadConfigs
  \/ ProbeHit
  \/ ProbeMiss
  \/ DurableSkip
  \/ DurableMiss
  \/ DurableHit
  \/ IncrementalCheck
  \/ PatchOk
  \/ PatchThrows
  \/ FromAssetGraphOk
  \/ FromAssetGraphThrows
  \/ BundleOk
  \/ BundleThrows
  \/ OptimizeOk
  \/ OptimizeThrows
  \/ RegisterBundlerDevDep
  \/ \E i \in 1..Len(tasks) : NamerCall(i)
  \/ NameBundlesOk
  \/ NameBundlesCollision
  \/ ApplyRuntimesOk
  \/ ApplyRuntimesThrows
  \/ Finalize

Spec == Init /\ [][Next]_vars

\* The same process in an environment where the snapshot facility may fail.
InitDump ==
  /\ options \in [mode : Modes, shouldDisableCache : BOOLEAN]
  /\ dumpFails \in BOOLEAN
  /\ resident = [h \in GraphHashes |-> NoEntry]
  /\ graphs = [id \in 1..MaxRuns |-> FreeGraph]
  /\ runs = 0
  /\ lastHash = NoStr
  /\ pc = "idle"
  /\ assetGraph = [hash |-> NoStr, safeToIncrementallyBundle |-> FALSE]
  /\ predecessor = NoValue
  /\ probe = NoProbe
  /\ input = [previousAssetGraphHash |-> NoStr, changedAssets |-> <<>>]
  /\ configs = <<>>
  /\ devDepRequests = <<>>
  /\ invalidations = {}
  /\ keys = [cacheKey |-> NoStr, bundlerHash |-> NoStr]
  /\ previousBundleGraphResult = NoValue
  /\ internalBundleGraph = 0
  /\ tasks = <<>>
  /\ error = NoError
  /\ changedRuntimes = {}
  /\ returned = NoValue
  /\ hashCalls = <<>>
  /\ stores = <<>>
  /\ trace = <<>>
  /\ priorGraph = FreeGraph
  /\ signal = [aborted |-> FALSE]
  /\ build = BuildStart
  /\ lastIndex = 0

SpecDump == InitDump /\ [][Next]_vars

----------------------------------------------------------------------------
(* getHashes on its own: a runner in any state evaluates getHashes, something
   in the runner changes, and it evaluates getHashes again. *)

\* States of devDepRequests a runner passes through.
DevDepStates ==
  { <<>>,
    loadConfigDevDeps(<<>>, <<"preset">>),
    registerNamerDevDeps(
      runDevDepRequest(<<>>, BundlerPlugin.name, BundlerPlugin.resolveFrom),
      Namers) }

RunnerStates ==
  [graph : GraphHashes, safe : BOOLEAN, prev : {NoStr} \cup GraphHashes,
   config : ConfigProfiles, devDeps : DevDepStates,
   invs : {{"config"}, {"config", "option"}}]

HashInit ==
  /\ options \in [mode : Modes, shouldDisableCache : BOOLEAN]
  /\ dumpFails = FALSE
  /\ resident = [h \in GraphHashes |-> NoEntry]
  /\ graphs = [id \in 1..MaxRuns |-> FreeGraph]
  /\ runs = 1
  /\ lastHash = NoStr
  /\ pc = "hashes"
  /\ \E r \in RunnerStates :
       /\ assetGraph = [hash |-> r.graph, safeToIncrementallyBundle |-> r.safe]
       /\ input = [previousAssetGraphHash |-> r.prev, changedAssets |-> <<>>]
       /\ configs = LoadedConfigs(r.config)
       /\ devDepRequests = r.devDeps
       /\ invalidations = r.invs
  /\ predecessor = NoValue
  /\ probe = NoProbe
  /\ keys = [cacheKey |-> NoStr, bundlerHash |-> NoStr]
  /\ previousBundleGraphResult = NoValue
  /\ internalBundleGraph = 0
  /\ tasks = <<>>
  /\ error = NoError
  /\ changedRuntimes = {}
  /\ returned = NoValue
  /\ hashCalls = <<>>
  /\ stores = <<>>
  /\ trace = <<>>
  /\ priorGraph = FreeGraph
  /\ signal = [aborted |-> FALSE]
  /\ build = BuildStart
  /\ lastIndex = 0

\* One evaluation of getHashes in the runner's current state.
HashEvaluate ==
  /\ pc \in {"hashes", "rehash"}
  /\ hashCalls' = Append(hashCalls, HashCall(getHashes))
  /\ pc' = IF pc = "hashes" THEN "changing" ELSE "hashed"
  /\ UNCHANGED <<options, dumpFails, resident, graphs, runs, lastHash,
                 assetGraph, predecessor, probe, input, configs,
                 devDepRequests, invalidations, keys,
                 previousBundleGraphResult, internalBundleGraph, tasks,
                 error, changedRuntimes, returned, stores, trace, priorGraph,
                 signal, build, lastIndex>>

\* Between the evaluations the runner's state changes; the second evaluation
\* may belong to a build in another mode.
HashRunnerChanges ==
  /\ pc = "changing"
  /\ \E r \in RunnerStates :
       /\ assetGraph' = [hash |-> r.graph, safeToIncrementallyBundle |-> r.safe]
       /\ input' = [previousAssetGraphHash |-> r.prev, changedAssets |-> <<>>]
       /\ configs' = LoadedConfigs(r.config)
       /\ devDepRequests' = r.devDeps
       /\ invalidations' = r.invs
  /\ \E mode \in Modes : options' = [options EXCEPT !.mode = mode]
  /\ pc' = "rehash"
  /\ UNCHANGED <<dumpFails, resident, graphs, runs, lastHash, predecessor,
                 probe, keys, previousBundleGraphResult, internalBundleGraph,
                 tasks, error, changedRuntimes, returned, hashCalls, stores,
                 trace, priorGraph, signal, build, lastIndex>>

HashNext == HashEvaluate \/ HashRunnerChanges

SpecHashes == HashInit /\ [][HashNext]_vars

----------------------------------------------------------------------------
(* The build request: ParcelBuildRequest.run sequences the asset graph
   request, the bundle graph request and the write bundles request. *)

ChangedAsset(id, version) == [key |-> id, asset |-> version]

\* changedAssets maps the asset graph request reports.
AssetStepMaps ==
  { <<>>,
    <<ChangedAsset("a1", "transformed")>>,
    <<ChangedAsset("a1", "transformed"), ChangedAsset("a2", "transformed")>> }

\* changedAssets maps the bundle graph request reports (runtime injection).
RuntimeMaps ==
  { <<>>,
    <<ChangedAsset("a2", "runtime")>>,
    <<ChangedAsset("r1", "runtime"), ChangedAsset("a1", "runtime")>> }

\* What the asset graph request resolves to.
AssetGraphResults ==
  [kind : {"record"}, assetGraph : GraphHashes,
   previousAssetGraphHash : {NoStr, <<"g1">>},
   changedAssets : AssetStepMaps, assetRequests : {<<"entry">>}]

\* What the bundle graph request resolves to: the record of a full
\* computation or of a resident hit, or the bare graph of the durable-hit path.
BundleGraphResults ==
  [kind : {"record"}, bundleGraph : 1..2, changedAssets : RuntimeMaps]
    \cup [kind : {"graph"}, bundleGraph : 1..2]

\* Mutant of createBundleGraphRequest: the previous hash is not handed on.
createBundleGraphRequest_DropsPreviousHash(g, previousHash, changed) ==
  [kind |-> "bundle_graph_request", assetGraph |-> g,
   previousAssetGraphHash |-> NoStr, changedAssets |-> changed]

\* Lines 76-81
createBundleGraphRequest(g, previousHash, changed) ==
  [kind |-> "bundle_graph_request", assetGraph |-> g,
   previousAssetGraphHash |-> previousHash, changedAssets |-> changed]

\* Lines 95-98
createWriteBundlesRequest(bg) ==
  [kind |-> "write_bundles_request", bundleGraph |-> bg]

\* Mutant of mergeChangedAssets: an id the asset graph step reported keeps
\* its entry.
RECURSIVE mergeChangedAssets_KeepsFirst(_, _)
mergeChangedAssets_KeepsFirst(changed, changedRuntimeAssets) ==
  IF changedRuntimeAssets = <<>> THEN changed
  ELSE LET e == Head(changedRuntimeAssets)
       IN mergeChangedAssets_KeepsFirst(
            IF \E i \in 1..Len(changed) : changed[i].key = e.key
              THEN changed ELSE Append(changed, e),
            Tail(changedRuntimeAssets))

\* Lines 86-88: changedAssets.set(id, asset) for every runtime entry in order.
RECURSIVE mergeChangedAssets(_, _)
mergeChangedAssets(changed, changedRuntimeAssets) ==
  IF changedRuntimeAssets = <<>> THEN changed
  ELSE LET e == Head(changedRuntimeAssets)
       IN mergeChangedAssets(MapSet(changed, e.key, e),
                             Tail(changedRuntimeAssets))

\* assertSignalNotAborted(signal): throws BuildAbortError when aborted.
assertSignalNotAborted == ~signal.aborted

BuildAbortError == PlainError("BuildAbortError")

BuildInit ==
  /\ options = [mode |-> "development", shouldDisableCache |-> FALSE]
  /\ dumpFails = FALSE
  /\ resident = [h \in GraphHashes |-> NoEntry]
  /\ graphs = [id \in 1..MaxRuns |-> FreeGraph]
  /\ runs = 0
  /\ lastHash = NoStr
  /\ pc = "idle"
  /\ assetGraph = [hash |-> NoStr, safeToIncrementallyBundle |-> FALSE]
  /\ predecessor = NoValue
  /\ probe = NoProbe
  /\ input = [previousAssetGraphHash |-> NoStr, changedAssets |-> <<>>]
  /\ configs = <<>>
  /\ devDepRequests = <<>>
  /\ invalidations = {}
  /\ keys = [cacheKey |-> NoStr, bundlerHash |-> NoStr]
  /\ previousBundleGraphResult = NoValue
  /\ internalBundleGraph = 0
  /\ tasks = <<>>
  /\ error = NoError
  /\ changedRuntimes = {}
  /\ returned = NoValue
  /\ hashCalls = <<>>
  /\ stores = <<>>
  /\ trace = <<>>
  /\ priorGraph = FreeGraph
  /\ signal = [aborted |-> FALSE]
  /\ build = BuildStart
  /\ lastIndex = 0

\* The caller aborts the signal; an aborted signal stays aborted.
BuildAbort ==
  /\ ~signal.aborted
  /\ build.pc \notin {"done", "failed"}
  /\ signal' = [signal EXCEPT !.aborted = TRUE]
  /\ trace' = Append(trace, Ev("abort", "signal"))
  /\ UNCHANGED <<options, dumpFails, resident, graphs, runs, lastHash, pc,
                 assetGraph, predecessor, probe, input, configs,
                 devDepRequests, invalidations, keys,
                 previousBundleGraphResult, internalBundleGraph, tasks,
                 error, changedRuntimes, returned, hashCalls, stores,
                 priorGraph, build, lastIndex>>

\* Lines 57-71: the asset graph request is created and run.
RunAssetGraphRequest ==
  /\ build.pc = "start"
  /\ build' = [build EXCEPT !.pc = "assetGraph"]
  /\ trace' = Append(trace, Ev("start", "assetGraph"))
  /\ UNCHANGED <<options, dumpFails, resident, graphs, runs, lastHash, pc,
                 assetGraph, predecessor, probe, input, configs,
                 devDepRequests, invalidations, keys,
                 previousBundleGraphResult, internalBundleGraph, tasks,
                 error, changedRuntimes, returned, hashCalls, stores,
                 priorGraph, signal, lastIndex>>

\* Line 68: the asset graph request rejects and so does run.
AssetGraphThrows ==
  /\ build.pc = "assetGraph"
  /\ build' = [build EXCEPT !.pc = "failed"]
  /\ error' = PlainError("assetGraph")
  /\ trace' = Append(trace, Ev("throw", "assetGraph"))
  /\ UNCHANGED <<options, dumpFails, resident, graphs, runs, lastHash, pc,
                 assetGraph, predecessor, probe, input, configs,
                 devDepRequests, invalidations, keys,
                 previousBundleGraphResult, internalBundleGraph, tasks,
                 changedRuntimes, returned, hashCalls, stores, priorGraph,
                 signal, lastIndex>>

\* Lines 68-85: the asset graph request resolves; the bundle graph request is
\* created from what it returned and run.
AssetGraphReturns ==
  /\ build.pc = "assetGraph"
  /\ \E r \in AssetGraphResults :
       build' = [build EXCEPT
         !.pc = "bundleGraph",
         !.assetGraphResult = r,
         !.assetGraph = r.assetGraph,
         !.previousAssetGraphHash = r.previousAssetGraphHash,
         !.changedAssets = r.changedAssets,
         !.assetRequests = r.assetRequests,
         !.bundleGraphRequest =
            createBundleGraphRequest(r.assetGraph, r.previousAssetGraphHash,
                                     r.changedAssets)]
  /\ trace' = trace \o <<Ev("return", "assetGraph"), Ev("start", "bundleGraph")>>
  /\ UNCHANGED <<options, dumpFails, resident, graphs, runs, lastHash, pc,
                 assetGraph, predecessor, probe, input, configs,
                 devDepRequests, invalidations, keys,
                 previousBundleGraphResult, internalBundleGraph, tasks,
                 error, changedRuntimes, returned, hashCalls, stores,
                 priorGraph, signal, lastIndex>>

\* Line 83: the bundle graph request rejects and so does run.
BundleGraphThrows ==
  /\ build.pc = "bundleGraph"
  /\ build' = [build EXCEPT !.pc = "failed"]
  /\ error' = PlainError("bundleGraph")
  /\ trace' = Append(trace, Ev("throw", "bundleGraph"))
  /\ UNCHANGED <<options, dumpFails, resident, graphs, runs, lastHash, pc,
                 assetGraph, predecessor, probe, input, configs,
                 devDepRequests, invalidations, keys,
                 previousBundleGraphResult, internalBundleGraph, tasks,
                 changedRuntimes, returned, hashCalls, stores, priorGraph,
                 signal, lastIndex>>

\* Lines 83-100: the bundle graph request resolves. A record is destructured,
\* its changed assets are merged, the graph is dumped and the write bundles
\* request is created and run. A bare graph has neither field: iterating the
\* undefined changedRuntimeAssets at line 86 throws a TypeError.
BundleGraphReturns ==
  /\ build.pc = "bundleGraph"
  /\ \E r \in BundleGraphResults :
       IF r.kind = "record"
         THEN /\ build' = [build EXCEPT
                   !.pc = "writeBundles",
                   !.bundleGraphResult = r,
                   !.bundleGraph = r.bundleGraph,
                   !.changedRuntimeAssets = r.changedAssets,
                   !.changedAssets =
                      mergeChangedAssets(build.changedAssets, r.changedAssets),
                   !.writeBundlesRequest =
                      createWriteBundlesRequest(r.bundleGraph)]
              /\ trace' = trace \o <<Ev("return", "bundleGraph")>>
                             \o dumpGraphToGraphViz("BundleGraph")
                             \o <<Ev("start", "writeBundles")>>
              /\ error' = error
         ELSE /\ build' = [build EXCEPT !.pc = "failed",
                                        !.bundleGraphResult = r]
              /\ trace' = trace \o <<Ev("return", "bundleGraph")>>
              /\ error' = PlainError("TypeError")
  /\ UNCHANGED <<options, dumpFails, resident, graphs, runs, lastHash, pc,
                 assetGraph, predecessor, probe, input, configs,
                 devDepRequests, invalidations, keys,
                 previousBundleGraphResult, internalBundleGraph, tasks,
                 changedRuntimes, returned, hashCalls, stores, priorGraph,
                 signal, lastIndex>>

\* Line 100: the write bundles request rejects and so does run.
WriteBundlesThrows ==
  /\ build.pc = "writeBundles"
  /\ build' = [build EXCEPT !.pc = "failed"]
  /\ error' = PlainError("writeBundles")
  /\ trace' = Append(trace, Ev("throw", "writeBundles"))
  /\ UNCHANGED <<options, dumpFails, resident, graphs, runs, lastHash, pc,
                 assetGraph, predecessor, probe, input, configs,
                 devDepRequests, invalidations, keys,
                 previousBundleGraphResult, internalBundleGraph, tasks,
                 changedRuntimes, returned, hashCalls, stores, priorGraph,
                 signal, lastIndex>>

\* Mutant of WriteBundlesReturns: the signal is not inspected.
WriteBundlesReturns_NoCheck ==
  /\ build.pc = "writeBundles"
  /\ \E info \in {<<"info1">>, <<"info2">>} :
       build' = [build EXCEPT
            !.pc = "done",
            !.bundleInfo = info,
            !.result = [kind |-> "record",
                        bundleGraph |-> build.bundleGraph,
                        bundleInfo |-> info,
                        changedAssets |-> build.changedAssets,
                        assetRequests |-> build.assetRequests]]
  /\ error' = error
  /\ trace' = trace \o <<Ev("return", "writeBundles")>>
  /\ UNCHANGED <<options, dumpFails, resident, graphs, runs, lastHash, pc,
                 assetGraph, predecessor, probe, input, configs,
                 devDepRequests, invalidations, keys,
                 previousBundleGraphResult, internalBundleGraph, tasks,
                 changedRuntimes, returned, hashCalls, stores, priorGraph,
                 signal, lastIndex>>

\* Lines 100-104: the write bundles request resolves, the signal is inspected
\* and the result is returned.
WriteBundlesReturns ==
  /\ build.pc = "writeBundles"
  /\ \E info \in {<<"info1">>, <<"info2">>} :
       IF assertSignalNotAborted
         THEN /\ build' = [build EXCEPT
                   !.pc = "done",
                   !.bundleInfo = info,
                   !.result = [kind |-> "record",
                               bundleGraph |-> build.bundleGraph,
                               bundleInfo |-> info,
                               changedAssets |-> build.changedAssets,
                               assetRequests |-> build.assetRequests]]
              /\ error' = error
         ELSE /\ build' = [build EXCEPT !.pc = "failed", !.bundleInfo = info]
              /\ error' = BuildAbortError
  /\ trace' = trace \o <<Ev("return", "writeBundles"), Ev("inspect", "signal")>>
  /\ UNCHANGED <<options, dumpFails, resident, graphs, runs, lastHash, pc,
                 assetGraph, predecessor, probe, input, configs,
                 devDepRequests, invalidations, keys,
                 previousBundleGraphResult, internalBundleGraph, tasks,
                 changedRuntimes, returned, hashCalls, stores, priorGraph,
                 signal, lastIndex>>

BuildNext ==
  \/ BuildAbort
  \/ RunAssetGraphRequest
  \/ AssetGraphThrows
  \/ AssetGraphReturns
  \/ BundleGraphThrows
  \/ BundleGraphReturns
  \/ WriteBundlesThrows
  \/ WriteBundlesReturns

SpecBuild == BuildInit /\ [][BuildNext]_vars

----------------------------------------------------------------------------
(* runDevDepRequest on its own: a runner registers a sequence of dev
   dependency requests. *)

MaxRegistrations == 3

\* Dev dependency requests plugins and their configuration declare: the
\* specifier and the file it is resolved from are arbitrary strings, the hash
\* follows the content of the dependency.
DevDepInputs ==
  {DevDepRequest(specifier, resolveFrom, hash) :
     specifier \in {"a", "a:b"}, resolveFrom \in {"c", "b:c"},
     hash \in {<<"d1">>, <<"d2">>}}

DevDepInit ==
  /\ options = [mode |-> "development", shouldDisableCache |-> FALSE]
  /\ dumpFails = FALSE
  /\ resident = [h \in GraphHashes |-> NoEntry]
  /\ graphs = [id \in 1..MaxRuns |-> FreeGraph]
  /\ runs = 1
  /\ lastHash = NoStr
  /\ pc = "devDeps"
  /\ assetGraph = [hash |-> NoStr, safeToIncrementallyBundle |-> FALSE]
  /\ predecessor = NoValue
  /\ probe = NoProbe
  /\ input = [previousAssetGraphHash |-> NoStr, changedAssets |-> <<>>]
  /\ configs = <<>>
  /\ devDepRequests = <<>>
  /\ invalidations = {}
  /\ keys = [cacheKey |-> NoStr, bundlerHash |-> NoStr]
  /\ previousBundleGraphResult = NoValue
  /\ internalBundleGraph = 0
  /\ tasks = <<>>
  /\ error = NoError
  /\ changedRuntimes = {}
  /\ returned = NoValue
  /\ hashCalls = <<>>
  /\ stores = <<>>
  /\ trace = <<>>
  /\ priorGraph = FreeGraph
  /\ signal = [aborted |-> FALSE]
  /\ build = BuildStart
  /\ lastIndex = 0

\* One call of runDevDepRequest; the trace keeps the requests registered.
RegisterDevDep ==
  /\ pc = "devDeps"
  /\ Len(trace) < MaxRegistrations
  /\ \E d \in DevDepInputs :
       /\ devDepRequests' = setDevDepRequest(devDepRequests, d)
       /\ trace' = Append(trace, Ev("runDevDepRequest", d))
  /\ UNCHANGED <<options, dumpFails, resident, graphs, runs, lastHash, pc,
                 assetGraph, predecessor, probe, input, configs,
                 invalidations, keys, previousBundleGraphResult,
                 internalBundleGraph, tasks, error, changedRuntimes,
                 returned, hashCalls, stores, priorGraph, signal, build,
                 lastIndex>>

DevDepNext == RegisterDevDep

SpecDevDeps == DevDepInit /\ [][DevDepNext]_vars

----------------------------------------------------------------------------
(* getHashes with its concurrency: the getConfigHash promises handed to
   Promise.all settle in any order. *)

\* The orders in which n promises can settle.
SettleOrders(n) == Permutations(1..n)

RECURSIVE PromiseAllFill(_, _, _, _)
PromiseAllFill(values, order, k, results) ==
  IF k > Len(values) THEN results
  ELSE PromiseAllFill(values, order, k + 1,
                      [results EXCEPT ![order[k]] = values[order[k]]])

\* Mutant of PromiseAll: the values are collected as the promises settle.
PromiseAll_AsSettled(values, order) ==
  [k \in 1..Len(values) |-> values[order[k]]]

\* Lines 410-416: await Promise.all(promises) resolves to the array in which
\* the value of the i-th promise is the i-th element, whatever the order the
\* promises settle in.
PromiseAll(values, order) ==
  PromiseAllFill(values, order, 1, [i \in 1..Len(values) |-> NullStr])

\* Lines 410-438: getHashes when the getConfigHash promises settle in `order`.
getHashesWhen(order) ==
  LET configHashes == Join(PromiseAll(MapSeq(configs, HashOf), order))
      devDepHashes == Join(MapSeq(devDepRequests, HashOf))
  IN [cacheKey |-> hashString(PARCEL_VERSION \o assetGraph.hash
                               \o configHashes \o devDepHashes
                               \o getInvalidationHash(invalidations)
                               \o <<options.mode>>),
      bundlerHash |-> hashString(PARCEL_VERSION \o <<BundlerPlugin.name>>
                                  \o configHashes)]

\* One evaluation of getHashes; the trace keeps the order the promises
\* settled in.
HashEvaluateWhen ==
  /\ pc = "hashes"
  /\ \E order \in SettleOrders(Len(configs)) :
       /\ hashCalls' = Append(hashCalls, HashCall(getHashesWhen(order)))
       /\ trace' = Append(trace, Ev("settled", order))
  /\ pc' = "hashed"
  /\ UNCHANGED <<options, dumpFails, resident, graphs, runs, lastHash,
                 assetGraph, predecessor, probe, input, configs,
                 devDepRequests, invalidations, keys,
                 previousBundleGraphResult, internalBundleGraph, tasks,
                 error, changedRuntimes, returned, stores, priorGraph,
                 signal, build, lastIndex>>

ConcurrentHashNext == HashEvaluateWhen

SpecConcurrentHashes == HashInit /\ [][ConcurrentHashNext]_vars

----------------------------------------------------------------------------
(* nameBundle on its own: a namer returns a name for a bundle. *)

MaxNameLen == 4

\* Strings over the given tokens of length 1..n.
RECURSIVE StringsUpTo(_, _)
StringsUpTo(tokens, n) ==
  IF n = 0 THEN {}
  ELSE LET shorter == StringsUpTo(tokens, n - 1)
       IN {<<t>> : t \in tokens}
            \cup shorter
            \cup {Append(w, t) : w \in shorter, t \in tokens}

\* Names a namer may return: file name parts and hash reference tokens.
ReturnedNames == StringsUpTo({"n", "H1", "H2"}, MaxNameLen)

NameInit ==
  /\ options = [mode |-> "development", shouldDisableCache |-> FALSE]
  /\ dumpFails = FALSE
  /\ resident = [h \in GraphHashes |-> NoEntry]
  /\ \E ref \in {"H1", "H2"} :
       graphs = [id \in 1..MaxRuns |->
                   IF id = 1
                     THEN [bundles |-> <<MkBundle(<<"dist">>, FALSE, ref)>>,
                           origin |-> "fromAssetGraph", assets |-> {}]
                     ELSE FreeGraph]
  /\ runs = 1
  /\ lastHash = NoStr
  /\ pc = "naming"
  /\ assetGraph = [hash |-> NoStr, safeToIncrementallyBundle |-> FALSE]
  /\ predecessor = NoValue
  /\ probe = NoProbe
  /\ input = [previousAssetGraphHash |-> NoStr, changedAssets |-> <<>>]
  /\ configs = <<>>
  /\ devDepRequests = <<>>
  /\ invalidations = {}
  /\ keys = [cacheKey |-> NoStr, bundlerHash |-> NoStr]
  /\ previousBundleGraphResult = NoValue
  /\ internalBundleGraph = 1
  /\ tasks = <<NewTask(1)>>
  /\ error = NoError
  /\ changedRuntimes = {}
  /\ returned = NoValue
  /\ hashCalls = <<>>
  /\ stores = <<>>
  /\ trace = <<>>
  /\ priorGraph = FreeGraph
  /\ signal = [aborted |-> FALSE]
  /\ build = BuildStart
  /\ lastIndex = 0

\* Lines 486-503: the first namer returns a name for the bundle.
NamerReturns ==
  /\ pc = "naming"
  /\ tasks[1].st = "running"
  /\ \E r \in ReturnedNames :
       LET t == tasks[1]
           b == graphs[internalBundleGraph].bundles[t.bundle]
       IN /\ tasks' = [tasks EXCEPT ![1] =
                         TaskAfterCall(t, Namers[1].name, r, FALSE)]
          /\ graphs' = [graphs EXCEPT ![internalBundleGraph].bundles[t.bundle] =
                          [b EXCEPT !.name = r,
                                    !.displayName = DisplayName(r, b.hashReference)]]
  /\ UNCHANGED <<options, dumpFails, resident, runs, lastHash, pc,
                 assetGraph, predecessor, probe, input, configs,
                 devDepRequests, invalidations, keys,
                 previousBundleGraphResult, internalBundleGraph, error,
                 changedRuntimes, returned, hashCalls, stores, trace,
                 priorGraph, signal, build, lastIndex>>

NameNext == NamerReturns

SpecNameBundle == NameInit /\ [][NameNext]_vars

----------------------------------------------------------------------------
(* The SSR resolver: resolve tests every dependency specifier against the
   module-level regular expression WEBPACK_IMPORT_REGEX, which carries the
   global flag. Strings are sequences of characters. *)

MaxResolves == 3

LoaderWord == <<"-", "l", "o", "a", "d", "e", "r">>

\* Dependency specifiers handed to resolve.
Specifiers ==
  { <<"a">> \o LoaderWord \o <<"!", "b">>,
    <<"a", "b">> \o LoaderWord \o <<"?", "q", "!", ".", "/", "b">>,
    <<".", "/", "b">>,
    <<"a">> \o LoaderWord \o <<" ", "!", "b">>,
    <<"c", " ", "a">> \o LoaderWord \o <<"!", "b", "c", "d", "e">> }

NonSpace(c) == c # " "

\* The last index of the run of non-space characters that contains index i.
RunEnd(str, i) ==
  CHOOSE e \in i..Len(str) :
    /\ \A k \in i..e : NonSpace(str[k])
    /\ e = Len(str) \/ ~NonSpace(str[e + 1])

\* /\S+-loader\S*!\S+/ matches at index i: one or more non-space characters,
\* '-loader', non-space characters, '!', one or more non-space characters.
MatchesAt(str, i) ==
  /\ NonSpace(str[i])
  /\ LET e == RunEnd(str, i)
     IN \E j \in (i + 1)..e, k \in (i + 1)..e :
          /\ j + Len(LoaderWord) - 1 <= e
          /\ SubSeq(str, j, j + Len(LoaderWord) - 1) = LoaderWord
          /\ k >= j + Len(LoaderWord)
          /\ str[k] = "!"
          /\ k < e

\* The specifier matches the loader pattern.
MatchesLoaderPattern(str) == \E i \in 1..Len(str) : MatchesAt(str, i)

\* RegExp.prototype.test of a global regular expression: the search starts at
\* lastIndex; a match leaves lastIndex behind its last character, a failure
\* resets it to 0.
RegexTest(str, from) ==
  LET starts == {i \in (from + 1)..Len(str) : MatchesAt(str, i)}
  IN IF from > Len(str) \/ starts = {}
       THEN [matched |-> FALSE, lastIndex |-> 0]
       ELSE LET i == CHOOSE m \in starts : \A n \in starts : m <= n
            IN [matched |-> TRUE, lastIndex |-> RunEnd(str, i)]

ResolverInit ==
  /\ options = [mode |-> "development", shouldDisableCache |-> FALSE]
  /\ dumpFails = FALSE
  /\ resident = [h \in GraphHashes |-> NoEntry]
  /\ graphs = [id \in 1..MaxRuns |-> FreeGraph]
  /\ runs = 0
  /\ lastHash = NoStr
  /\ pc = "resolver"
  /\ assetGraph = [hash |-> NoStr, safeToIncrementallyBundle |-> FALSE]
  /\ predecessor = NoValue
  /\ probe = NoProbe
  /\ input = [previousAssetGraphHash |-> NoStr, changedAssets |-> <<>>]
  /\ configs = <<>>
  /\ devDepRequests = <<>>
  /\ invalidations = {}
  /\ keys = [cacheKey |-> NoStr, bundlerHash |-> NoStr]
  /\ previousBundleGraphResult = NoValue
  /\ internalBundleGraph = 0
  /\ tasks = <<>>
  /\ error = NoError
  /\ changedRuntimes = {}
  /\ returned = NoValue
  /\ hashCalls = <<>>
  /\ stores = <<>>
  /\ trace = <<>>
  /\ priorGraph = FreeGraph
  /\ signal = [aborted |-> FALSE]
  /\ build = BuildStart
  /\ lastIndex = 0

\* One call of resolve: the specifier is tested; a match throws the loader
\* syntax error, otherwise the call goes on to the alias map and the resolver.
Resolve ==
  /\ pc = "resolver"
  /\ Len(trace) < MaxResolves
  /\ \E specifier \in Specifiers :
       LET t == RegexTest(specifier, lastIndex)
       IN /\ lastIndex' = t.lastIndex
          /\ trace' = Append(trace, Ev(IF t.matched THEN "rejected" ELSE "passed",
                                       specifier))
  /\ UNCHANGED <<options, dumpFails, resident, graphs, runs, lastHash, pc,
                 assetGraph, predecessor, probe, input, configs,
                 devDepRequests, invalidations, keys,
                 previousBundleGraphResult, internalBundleGraph, tasks,
                 error, changedRuntimes, returned, hashCalls, stores,
                 priorGraph, signal, build>>

ResolverNext == Resolve

SpecResolver == ResolverInit /\ [][ResolverNext]_vars

----------------------------------------------------------------------------
(* The target request: skipTarget decides whether a target of a package is
   left to a separate resolvePackageTargets call. *)

TargetNames == {<<"main">>, <<"module">>, <<"browser">>, <<"alt">>}

\* exclusiveTarget is optional: a target name, or null/undefined.
ExclusiveTargets == TargetNames \cup {NullStr}

\* descriptor.source is optional: one file path, an array of file paths
\* (possibly empty), or null/undefined.
DescriptorSources == {NullStr, <<>>, <<"a.js">>, <<"a.js", "b.js">>}

skipTarget(targetName, exclusiveTarget, descriptorSource) ==
  IF exclusiveTarget = NullStr
    THEN descriptorSource # NullStr
    ELSE targetName # exclusiveTarget

TargetInit ==
  /\ options = [mode |-> "development", shouldDisableCache |-> FALSE]
  /\ dumpFails = FALSE
  /\ resident = [h \in GraphHashes |-> NoEntry]
  /\ graphs = [id \in 1..MaxRuns |-> FreeGraph]
  /\ runs = 0
  /\ lastHash = NoStr
  /\ pc = "target"
  /\ assetGraph = [hash |-> NoStr, safeToIncrementallyBundle |-> FALSE]
  /\ predecessor = NoValue
  /\ probe = NoProbe
  /\ input \in [targetName : TargetNames,
                exclusiveTarget : ExclusiveTargets,
                descriptorSource : DescriptorSources]
  /\ configs = <<>>
  /\ devDepRequests = <<>>
  /\ invalidations = {}
  /\ keys = [cacheKey |-> NoStr, bundlerHash |-> NoStr]
  /\ previousBundleGraphResult = NoValue
  /\ internalBundleGraph = 0
  /\ tasks = <<>>
  /\ error = NoError
  /\ changedRuntimes = {}
  /\ returned = NoValue
  /\ hashCalls = <<>>
  /\ stores = <<>>
  /\ trace = <<>>
  /\ priorGraph = FreeGraph
  /\ signal = [aborted |-> FALSE]
  /\ build = BuildStart
  /\ lastIndex = 0

\* One call of skipTarget on the drawn arguments.
SkipTargetCall ==
  /\ pc = "target"
  /\ pc' = "targetDone"
  /\ returned' = [skip |-> skipTarget(input.targetName, input.exclusiveTarget,
                                      input.descriptorSource)]
  /\ UNCHANGED <<options, dumpFails, resident, graphs, runs, lastHash,
                 assetGraph, predecessor, probe, input, configs,
                 devDepRequests, invalidations, keys,
                 previousBundleGraphResult, internalBundleGraph, tasks,
                 error, changedRuntimes, hashCalls, stores, trace,
                 priorGraph, signal, build, lastIndex>>

TargetNext == SkipTargetCall

SpecTarget == TargetInit /\ [][TargetNext]_vars

----------------------------------------------------------------------------
(* The nightly update script: getNearestNightlyVersion picks a nightly version
   of a package from the publication times that `yarn info` reports. Version
   strings are sequences of tokens, timestamps are integers. *)

MaxTime == 3

\* Keys of info.data.time: nightly versions, a release and the 'created' key.
VersionKeys ==
  { <<"2.0.0", "-nightly", ".", "1">>,
    <<"2.0.0", "-nightly", ".", "2">>,
    <<"2.0.0", "-nightly", ".", "3">>,
    <<"2.0.0">>,
    <<"created">> }

\* NIGHTLY = /.*-nightly\..*/ : '-nightly' directly followed by a dot.
NIGHTLY(version) ==
  \E i \in 1..(Len(version) - 1) :
    version[i] = "-nightly" /\ version[i + 1] = "."

\* The results `yarn info` can give: publication times of some of the keys.
PackageInfos ==
  UNION { [ks -> 1..MaxTime] : ks \in SUBSET VersionKeys }

\* The orders Array.prototype.sort can leave the nightly versions in with the
\* comparator (a < b ? 1 : -1): newest first, equal timestamps in any order.
SortedVersions(info) ==
  LET nightly == {v \in DOMAIN info : NIGHTLY(v)}
      n == Cardinality(nightly)
  IN { s \in [1..n -> nightly] :
         /\ \A i, j \in 1..n : i # j => s[i] # s[j]
         /\ \A i \in 1..n, j \in 1..n : i < j => info[s[i]] >= info[s[j]] }

\* The loop of getNearestNightlyVersion from position i on.
RECURSIVE NearestFrom(_, _, _, _, _)
NearestFrom(versions, info, time, i, candidate) ==
  IF i > Len(versions) THEN candidate
  ELSE IF info[versions[i]] < time
    THEN (IF candidate = NullStr THEN versions[i] ELSE candidate)
    ELSE NearestFrom(versions, info, time, i + 1, versions[i])

\* Variant: the newest nightly version is taken whatever the time is.
getNearestNightlyVersion_Newest(versions, info, time) ==
  IF versions = <<>> THEN NullStr ELSE versions[1]

getNearestNightlyVersion(versions, info, time) ==
  NearestFrom(versions, info, time, 1, NullStr)

NightlyInit ==
  /\ options = [mode |-> "development", shouldDisableCache |-> FALSE]
  /\ dumpFails = FALSE
  /\ resident = [h \in GraphHashes |-> NoEntry]
  /\ graphs = [id \in 1..MaxRuns |-> FreeGraph]
  /\ runs = 0
  /\ lastHash = NoStr
  /\ pc = "nightly"
  /\ assetGraph = [hash |-> NoStr, safeToIncrementallyBundle |-> FALSE]
  /\ predecessor = NoValue
  /\ probe = NoProbe
  /\ input \in [info : PackageInfos, time : 0..(MaxTime + 1)]
  /\ configs = <<>>
  /\ devDepRequests = <<>>
  /\ invalidations = {}
  /\ keys = [cacheKey |-> NoStr, bundlerHash |-> NoStr]
  /\ previousBundleGraphResult = NoValue
  /\ internalBundleGraph = 0
  /\ tasks = <<>>
  /\ error = NoError
  /\ changedRuntimes = {}
  /\ returned = NoValue
  /\ hashCalls = <<>>
  /\ stores = <<>>
  /\ trace = <<>>
  /\ priorGraph = FreeGraph
  /\ signal = [aborted |-> FALSE]
  /\ build = BuildStart
  /\ lastIndex = 0

\* One call of getNearestNightlyVersion on the drawn package info and time.
NearestNightlyCall ==
  /\ pc = "nightly"
  /\ pc' = "nightlyDone"
  /\ \E versions \in SortedVersions(input.info) :
       returned' = [version |->
                      getNearestNightlyVersion(versions, input.info, input.time)]
  /\ UNCHANGED <<options, dumpFails, resident, graphs, runs, lastHash,
                 assetGraph, predecessor, probe, input, configs,
                 devDepRequests, invalidations, keys,
                 previousBundleGraphResult, internalBundleGraph, tasks,
                 error, changedRuntimes, hashCalls, stores, trace,
                 priorGraph, signal, build, lastIndex>>

NightlyNext == NearestNightlyCall

SpecNightly == NightlyInit /\ [][NightlyNext]_vars

----------------------------------------------------------------------------
(* Claims *)

\* C1 (as stated): a build that repeats a stored build, i.e. same asset graph,
\* plugin configs, dev dependencies, invalidations and mode, finds the stored
\* result at its resident probe and runs no plugin phase.
C1_CacheIdempotence_Claim ==
  (ProbeDone /\ probe.repeated) => (probe.found /\ ~PluginPhaseRan)

\* C2: on the miss path, when the preceding request's result carries a
\* bundlerHash other than the current one, the returned bundle graph is the one
\* fromAssetGraph created in this run, not the preceding result's graph, and
\* safeToIncrementallyBundle is false on return.
C2_IncrementalCorrectness ==
  (/\ pc = "done"
   /\ TookMissPath
   /\ predecessor.kind # "none"
   /\ predecessor.bundlerHash # keys.bundlerHash)
  => (/\ returned.bundleGraph = runs
      /\ graphs[returned.bundleGraph].origin = "fromAssetGraph"
      /\ HasEv("fromAssetGraph")
      /\ returned.bundleGraph # predecessor.bundleGraph
      /\ ~assetGraph.safeToIncrementallyBundle)

\* C2 witness: a build fetched a preceding result whose bundlerHash differs,
\* and returned.
C2_Witness ==
  /\ pc = "done"
  /\ HasEv("getRequestResult")
  /\ previousBundleGraphResult.kind = "record"
  /\ previousBundleGraphResult.bundlerHash \notin {NoStr, keys.bundlerHash}
  /\ returned.bundleGraph = runs

C4_ReturnsResultRecord_Claim ==
  pc = "done" => (returned.kind = "record" /\ returned.fields = ResultFields)

\* Observations about naming
WorkingBundles == graphs[internalBundleGraph].bundles
DuplicatePair ==
  \E i, j \in 1..Len(WorkingBundles) :
    /\ i < j
    /\ WorkingBundles[i].distDir = WorkingBundles[j].distDir
    /\ WorkingBundles[i].name = WorkingBundles[j].name
NamingCompleted == pc \in {"applyRuntimes", "finalize"} \/ HasEv("applyRuntimes")
NamingSettled == tasks # <<>> /\ AllNamed

\* C5: once nameBundles has completed without error every bundle of the graph,
\* inline ones included, has a name and no two share (distDir, name); when
\* naming ends with two bundles sharing the pair, nameBundles throws the
\* uniqueness error and nothing is stored or returned.
C5_NamingUniqueness ==
  internalBundleGraph # 0 =>
    /\ NamingCompleted =>
         /\ \A i \in 1..Len(WorkingBundles) : WorkingBundles[i].name # NullStr
         /\ ~DuplicatePair
    /\ (NamingSettled /\ DuplicatePair) =>
         /\ pc \in {"naming", "failed"}
         /\ pc = "failed" => error = PlainError("Bundles must have unique names")
         /\ stores = <<>>
         /\ returned.kind = "none"

\* C5 witness: a graph of two bundles in one distDir, one of them inline, was
\* named and its result stored.
C5_Witness ==
  /\ pc = "done"
  /\ stores # <<>>
  /\ internalBundleGraph # 0
  /\ Len(WorkingBundles) = 2
  /\ WorkingBundles[2].isInline
  /\ WorkingBundles[1].distDir = WorkingBundles[2].distDir
  /\ NamingSettled

\* C6: every nameBundle task calls the namers in list order; only the last call
\* made may have returned a name; the bundle's name is that value.
C6_NamingFallbackOrder ==
  \A i \in 1..Len(tasks) :
    LET t == tasks[i]
        c == t.calls
    IN /\ Len(c) <= Len(Namers)
       /\ \A k \in 1..Len(c) : c[k].namer = Namers[k].name
       /\ \A k \in 1..(Len(c) - 1) : c[k].result = NullStr
       /\ t.st = "running" => \A k \in 1..Len(c) : c[k].result = NullStr
       /\ t.st = "named" =>
            /\ c # <<>>
            /\ c[Len(c)].result \notin {NullStr, Throws}
            /\ WorkingBundles[t.bundle].name = c[Len(c)].result

\* C6 witness: namer A declined and namer B named the bundle.
C6_Witness ==
  \E i \in 1..Len(tasks) :
    /\ tasks[i].st = "named"
    /\ tasks[i].calls = <<[namer |-> "A", result |-> NullStr],
                          [namer |-> "B", result |-> <<"y">>]>>
    /\ WorkingBundles[tasks[i].bundle].name = <<"y">>

Exhausted(t) ==
  /\ Len(t.calls) = Len(Namers)
  /\ \A k \in 1..Len(t.calls) : t.calls[k].result = NullStr
UnableToName == PlainError("Unable to name bundle")

\* C7 (as stated): when every namer returned null for some bundle, the build
\* fails with the plain 'Unable to name bundle' error and nothing is stored or
\* returned.
C7_NamingExhaustion_Claim ==
  \A i \in 1..Len(tasks) :
    Exhausted(tasks[i]) =>
      /\ pc = "failed"
      /\ error = UnableToName
      /\ stores = <<>>
      /\ returned.kind = "none"

\* C7 (amended): when every namer returned null for some bundle, that bundle's
\* naming task fails with the plain 'Unable to name bundle' error, the build
\* fails, and nothing is stored or returned; the build's error is that plain
\* error unless another bundle's naming task, failed by a throwing namer, has
\* failed the build with its diagnostic.
C7_NamingExhaustion ==
  \A i \in 1..Len(tasks) :
    Exhausted(tasks[i]) =>
      /\ tasks[i].st = "failed"
      /\ tasks[i].error = UnableToName
      /\ pc = "failed"
      /\ stores = <<>>
      /\ returned.kind = "none"
      /\ \/ error = UnableToName
         \/ \E j \in 1..Len(tasks) :
              /\ j # i
              /\ tasks[j].st = "failed"
              /\ tasks[j].error.kind = "diagnostic"
              /\ error = tasks[j].error

\* C7 witness: the only failed naming task is an exhausted one.
C7_Witness ==
  /\ pc = "failed"
  /\ error = UnableToName
  /\ \E i \in 1..Len(tasks) :
       /\ Exhausted(tasks[i])
       /\ \A j \in 1..Len(tasks) : j # i => tasks[j].st # "failed"

\* C8: in development mode optimize is never invoked; in production mode a
\* computation (a run that invokes bundler.bundle) invokes optimize exactly
\* once, right after bundler.bundle completes: the only production runs that
\* have invoked bundle and not optimize are those where bundle has just
\* completed and those where bundle threw; no run invokes optimize twice or
\* without bundle.
C8_OptimizeGating ==
  /\ options.mode = "development" => ~HasEv("optimize")
  /\ CountEv("optimize") <= 1
  /\ \A o \in Positions("optimize") : \E b \in Positions("bundle") : b < o
  /\ (options.mode = "production" /\ HasEv("bundle"))
       => \/ CountEv("optimize") = 1
          \/ pc = "optimize"
          \/ /\ pc = "failed"
             /\ error = Diagnostic(BundlerPlugin.name)
             /\ ~HasEv("devDep")

\* C8 witness: a production build ran optimize and finished.
C8_Witness ==
  /\ options.mode = "production"
  /\ pc = "done"
  /\ HasEv("bundle")
  /\ CountEv("optimize") = 1

BundlerKey == DevDepKey(BundlerPlugin.name, BundlerPlugin.resolveFrom)
NamerKeys ==
  {DevDepKey(Namers[k].name, Namers[k].resolveFrom) : k \in 1..Len(Namers)}
RegisteredKeys == {devDepRequests[i].key : i \in 1..Len(devDepRequests)}

SameKeyInputs(a, b) ==
  /\ a.version = b.version
  /\ a.graphHash = b.graphHash
  /\ a.configHashes = b.configHashes
  /\ a.devDepHashes = b.devDepHashes
  /\ a.invalidationHash = b.invalidationHash
  /\ a.mode = b.mode

\* C10: two getHashes evaluations that read the same tool version, asset-graph
\* hash, config hashes, dev-dependency hashes, invalidation hash and mode
\* return the same cacheKey, whatever else differs in the runner.
C10_CacheKeyDeterminism ==
  \A i, j \in 1..Len(hashCalls) :
    SameKeyInputs(hashCalls[i], hashCalls[j])
      => hashCalls[i].cacheKey = hashCalls[j].cacheKey

\* C10 witness: two evaluations read the same six inputs in runner states that
\* differ elsewhere.
C10_Witness ==
  /\ Len(hashCalls) = 2
  /\ SameKeyInputs(hashCalls[1], hashCalls[2])
  /\ hashCalls[1].rest.previousAssetGraphHash # hashCalls[2].rest.previousAssetGraphHash
  /\ hashCalls[1].rest.safeToIncrementallyBundle
       # hashCalls[2].rest.safeToIncrementallyBundle
  /\ hashCalls[1].devDepHashes # <<>>

SameBundlerInputs(a, b) ==
  /\ a.version = b.version
  /\ a.plugin = b.plugin
  /\ a.configHashes = b.configHashes

\* C11: two getHashes evaluations that read the same tool version, bundler
\* plugin name and config hashes return the same bundlerHash, whatever the
\* asset-graph hash, the dev-dependency hashes, the invalidation hash and the
\* mode are.
C11_BundlerHashInsensitive ==
  \A i, j \in 1..Len(hashCalls) :
    SameBundlerInputs(hashCalls[i], hashCalls[j])
      => hashCalls[i].bundlerHash = hashCalls[j].bundlerHash

\* C11 witness: two evaluations agree on version, plugin and config hashes and
\* differ in graph hash, dev-dependency hashes, invalidation hash and mode.
C11_Witness ==
  /\ Len(hashCalls) = 2
  /\ SameBundlerInputs(hashCalls[1], hashCalls[2])
  /\ hashCalls[1].graphHash # hashCalls[2].graphHash
  /\ hashCalls[1].devDepHashes # hashCalls[2].devDepHashes
  /\ hashCalls[1].invalidationHash # hashCalls[2].invalidationHash
  /\ hashCalls[1].mode # hashCalls[2].mode
  /\ hashCalls[1].bundlerHash = hashCalls[2].bundlerHash

\* The config hash of the bundler plugin itself: loadConfigs loads it first.
BundlerConfigHash(call) == call.configHashes[1]

\* C12 (as stated): two getHashes evaluations that read the same tool version,
\* bundler plugin name and bundler configuration return the same bundlerHash:
\* a change of a namer's or runtime's configuration alone leaves it unchanged.
C12_BundlerConfigOnly_Claim ==
  \A i, j \in 1..Len(hashCalls) :
    (/\ hashCalls[i].version = hashCalls[j].version
     /\ hashCalls[i].plugin = hashCalls[j].plugin
     /\ BundlerConfigHash(hashCalls[i]) = BundlerConfigHash(hashCalls[j]))
      => hashCalls[i].bundlerHash = hashCalls[j].bundlerHash

\* The namer whose call threw in task t, "" when none did.
ThrowingNamer(t) ==
  IF t.calls # <<>> /\ t.calls[Len(t.calls)].result = Throws
    THEN t.calls[Len(t.calls)].namer ELSE ""

\* C13 (as stated): an error thrown by bundler.bundle or bundler.optimize
\* fails the build with a diagnostic whose origin is the bundler's name, and an
\* error thrown by a namer fails the build with a diagnostic whose origin is
\* that namer's name.
C13_FailureWrapping_Claim ==
  /\ (Threw("bundle") \/ Threw("optimize"))
       => (pc = "failed" /\ error = Diagnostic(BundlerPlugin.name))
  /\ \A i \in 1..Len(tasks) :
       ThrowingNamer(tasks[i]) # ""
         => (pc = "failed" /\ error = Diagnostic(ThrowingNamer(tasks[i])))

\* C13 (amended): an error thrown by bundler.bundle or bundler.optimize fails
\* the build with a diagnostic whose origin is the bundler's name; an error
\* thrown by a namer rejects that bundle's naming with a diagnostic whose
\* origin is that namer's name and the build fails; the build's error is that
\* diagnostic unless the naming of another bundle failed first, in which case
\* it is the other bundle's error.
C13_FailureWrapping ==
  /\ (Threw("bundle") \/ Threw("optimize"))
       => /\ pc = "failed"
          /\ error = Diagnostic(BundlerPlugin.name)
          /\ returned.kind = "none"
  /\ \A i \in 1..Len(tasks) :
       ThrowingNamer(tasks[i]) # ""
         => /\ tasks[i].st = "failed"
            /\ tasks[i].error = Diagnostic(ThrowingNamer(tasks[i]))
            /\ pc = "failed"
            /\ returned.kind = "none"
            /\ \/ error = tasks[i].error
               \/ \E j \in 1..Len(tasks) :
                    /\ j # i
                    /\ tasks[j].st = "failed"
                    /\ error = tasks[j].error

\* C13 witness: namer A declined, namer B threw, and the build failed with
\* B's diagnostic.
C13_Witness ==
  /\ pc = "failed"
  /\ error = Diagnostic("B")
  /\ \E i \in 1..Len(tasks) :
       /\ ThrowingNamer(tasks[i]) = "B"
       /\ tasks[i].calls[1] = [namer |-> "A", result |-> NullStr]

\* C14: a run of bundle() that fails (in bundling, optimizing, naming, runtime
\* injection, or patching) has called storeResult not once and returns
\* nothing; the resident store changes only in a step that records a
\* storeResult call and ends the run successfully, so no failed run leaves an
\* entry in it.
C14_NoPartialResult ==
  /\ [](pc = "failed" => (stores = <<>> /\ returned.kind = "none"
                           /\ ~HasEv("storeResult")))
  /\ [][resident' # resident
         => (pc' = "done" /\ Len(stores') = Len(stores) + 1
             /\ resident'[assetGraph.hash].result = stores'[Len(stores')].result
             /\ \A h \in GraphHashes \ {assetGraph.hash} :
                  resident'[h] = resident[h])]_vars

\* C14 witness: runtime injection failed in a build of an asset graph for
\* which an earlier build's result is resident.
C14_Witness ==
  /\ pc = "failed"
  /\ Threw("applyRuntimes")
  /\ resident[assetGraph.hash].result.kind = "record"
  /\ internalBundleGraph # resident[assetGraph.hash].result.bundleGraph

\* C15: when getRequestResult for the previous asset-graph hash throws or has
\* no result, the build is not eligible for reuse (the flag is cleared, no
\* patch is applied), it proceeds to InternalBundleGraph.fromAssetGraph, and
\* it fails only if a later step fails.
C15_LookupFailureRecovered ==
  (/\ HasEv("getRequestResult")
   /\ (Threw("getRequestResult") \/ previousBundleGraphResult.kind = "none"))
  => /\ ~assetGraph.safeToIncrementallyBundle
     /\ pc # "patch" /\ ~HasEv("updateAsset")
     /\ pc = "fromAssetGraph" \/ HasEv("fromAssetGraph")
     /\ pc = "failed" =>
          \E op \in {"fromAssetGraph", "bundle", "optimize", "applyRuntimes"} :
            Threw(op) \/ (\E i \in 1..Len(tasks) : tasks[i].st = "failed")
                      \/ error = PlainError("Bundles must have unique names")

\* C15 witness: the lookup threw although a reusable result was held, and the
\* build completed with a graph of its own.
C15_Witness ==
  /\ pc = "done"
  /\ Threw("getRequestResult")
  /\ predecessor.kind = "record"
  /\ predecessor.bundlerHash = keys.bundlerHash
  /\ returned.bundleGraph = runs
  /\ graphs[runs].origin = "fromAssetGraph"

HasDump(name) == \E k \in 1..Len(trace) : trace[k] = Ev("dump", name)
Exited == pc \in {"done", "failed"}
\* A step of bundle() failed: the build has a cause of failure of its own.
PhaseFailed ==
  \/ \E op \in {"updateAsset", "fromAssetGraph", "bundle", "optimize",
                 "applyRuntimes"} : Threw(op)
  \/ \E i \in 1..Len(tasks) : tasks[i].st = "failed"
  \/ error = PlainError("Bundles must have unique names")

ComputedSomething == PluginPhaseRan \/ HasEv("updateAsset") \/ TookIncrementalPath

\* C17: a run that executed a plugin phase or a patch and completed has called
\* getHashes exactly twice, first before the resident probe and again after
\* runtime injection, and has called storeResult once, with the cacheKey of
\* the second call; a run that failed called getHashes once and stored
\* nothing; every computed result in the resident store sits under the
\* post-phase key of the run that computed it.
C17_PostPhaseKeyStored ==
  /\ CountEv("getHashes") = Len(hashCalls)
  /\ (ComputedSomething /\ pc = "done") =>
       /\ Len(hashCalls) = 2
       /\ \A g \in Positions("getHashes") :
            \/ \A q \in Positions("getPreviousResult") : g < q
            \/ \A r \in Positions("applyRuntimes") : r < g
       /\ \E g \in Positions("getHashes") :
            \A q \in Positions("getPreviousResult") : g < q
       /\ \E g \in Positions("getHashes") :
            \A r \in Positions("applyRuntimes") : r < g
       /\ Len(stores) = 1
       /\ stores[1].key = hashCalls[2].cacheKey
       /\ stores[1].result.bundlerHash = hashCalls[1].bundlerHash
       /\ resident[assetGraph.hash] =
            [result |-> stores[1].result, cacheKey |-> hashCalls[2].cacheKey]
  /\ (ComputedSomething /\ pc # "done") => (Len(hashCalls) = 1 /\ stores = <<>>)

\* C17 witness: a completed computation whose post-phase key differs from its
\* first-pass key, stored under the post-phase key.
C17_Witness ==
  /\ pc = "done"
  /\ HasEv("bundle")
  /\ Len(hashCalls) = 2
  /\ hashCalls[1].cacheKey # hashCalls[2].cacheKey
  /\ resident[assetGraph.hash].cacheKey = hashCalls[2].cacheKey
  /\ keys.cacheKey = hashCalls[1].cacheKey

\* C18: when the resident probe finds a result, bundle() returns exactly that
\* stored result, having called nothing but loadConfigs, getHashes and
\* getPreviousResult: no cache.getBuffer, no getRequestResult, no plugin
\* operation, no storeResult; safeToIncrementallyBundle, the resident store's
\* entry and the working-graph variable are as they were.
C18_ResidentHitShortCircuit ==
  probe.found =>
    /\ pc = "done"
    /\ returned.kind # "none"
    /\ returned = resident[assetGraph.hash].result
    /\ resident[assetGraph.hash].cacheKey = keys.cacheKey
    /\ trace = <<Ev("loadConfigs", ""), Ev("getHashes", ""),
                 Ev("getPreviousResult", "")>>
    /\ ~PluginPhaseRan
    /\ stores = <<>>
    /\ Len(hashCalls) = 1
    /\ assetGraph.safeToIncrementallyBundle
         = hashCalls[1].rest.safeToIncrementallyBundle
    /\ internalBundleGraph = 0
    /\ previousBundleGraphResult = NoValue

\* C18 witness: a build found its result resident although its asset graph was
\* flagged safe for incremental bundling and caching was enabled.
C18_Witness ==
  /\ probe.found
  /\ pc = "done"
  /\ assetGraph.safeToIncrementallyBundle
  /\ input.previousAssetGraphHash # NoStr
  /\ ~options.shouldDisableCache
  /\ returned.bundleGraph # 0

\* C19: a durable hit happens only after a resident miss with caching enabled;
\* bundle() then deserializes the blob, calls storeResult exactly once, with
\* the deserialized graph and the cacheKey it probed with, runs no plugin
\* operation and returns; the resident store then answers a probe with that
\* key; and a run whose probe missed never finds, without having stored
\* itself, an entry under its key (a later probe with the same key hits).
C19_DurableHit ==
  /\ HasEv("deserializeToCache") =>
       /\ pc = "done"
       /\ ~probe.found
       /\ ~options.shouldDisableCache
       /\ CountEv("deserializeToCache") = 1
       /\ Len(stores) = 1 /\ CountEv("storeResult") = 1
       /\ stores[1].key = hashCalls[1].cacheKey
       /\ stores[1].result.bundleGraph = returned.bundleGraph
       /\ graphs[returned.bundleGraph] = DeserializedGraph
       /\ ~PluginPhaseRan /\ ~HasEv("updateAsset") /\ ~HasEv("fromAssetGraph")
       /\ Len(hashCalls) = 1
       /\ resident[assetGraph.hash] =
            [result |-> stores[1].result, cacheKey |-> hashCalls[1].cacheKey]
       /\ getPreviousResult(assetGraph.hash, hashCalls[1].cacheKey) = stores[1].result
  /\ (ProbeDone /\ ~probe.found /\ stores = <<>>)
       => getPreviousResult(assetGraph.hash, keys.cacheKey) = NoValue

\* C19 witness: a build found resident the graph an earlier build of the same
\* process had deserialized from the durable cache.
C19_Witness ==
  /\ probe.found
  /\ returned.bundleGraph # 0
  /\ graphs[returned.bundleGraph].origin = "deserializeToCache"
  /\ runs = 2

\* The build is eligible for incremental reuse by lines 236-253: the flag was
\* set on entry, a previous hash was passed, the lookup did not throw and its
\* result carries the current bundlerHash.
EligibleForReuse ==
  /\ hashCalls[1].rest.safeToIncrementallyBundle
  /\ input.previousAssetGraphHash # NoStr
  /\ ~Threw("getRequestResult")
  /\ predecessor.kind = "record"
  /\ predecessor.bundlerHash = keys.bundlerHash

PastDecision ==
  pc \notin {"idle", "loadConfigs", "probe", "durable", "incremental"}

\* C20: with options.shouldDisableCache set, cache.getBuffer is never called
\* and nothing is deserialized; the resident probe is still made first, and
\* the incremental-reuse decision is the one made when caching is enabled:
\* whatever the switch, a build that passes both cache lookups patches the
\* previous graph exactly when it is eligible.
C20_NoCacheSwitch ==
  /\ options.shouldDisableCache
       => (~HasEv("getBuffer") /\ ~HasEv("deserializeToCache"))
  /\ ProbeDone => CountEv("getPreviousResult") = 1
  /\ (~options.shouldDisableCache /\ ProbeDone /\ ~probe.found /\ pc # "durable")
       => HasEv("getBuffer")
  /\ (PastDecision /\ ~probe.found /\ ~HasEv("deserializeToCache"))
       => /\ TookIncrementalPath <=> EligibleForReuse
          /\ assetGraph.safeToIncrementallyBundle <=> EligibleForReuse
          /\ HasEv("getRequestResult")
               <=> (hashCalls[1].rest.safeToIncrementallyBundle
                    /\ input.previousAssetGraphHash # NoStr)

\* C20 witness: with caching disabled a build probed the resident store and
\* then reused the previous build's graph.
C20_Witness ==
  /\ options.shouldDisableCache
  /\ pc = "done"
  /\ HasEv("getPreviousResult")
  /\ TookIncrementalPath
  /\ EligibleForReuse

\* Every occurrence of op1 in the trace precedes every occurrence of op2.
Precedes(op1, op2) ==
  \A a \in Positions(op1) : \A b \in Positions(op2) : a < b

\* C21: in every run bundler.bundle completes before bundler.optimize starts;
\* bundle and optimize complete before naming starts and before any namer is
\* invoked; every bundle is named and the uniqueness check has passed before
\* applyRuntimes starts, after which no namer is invoked; and in a full
\* computation applyRuntimes completes before storeResult is called.
C21_PhaseOrdering ==
  /\ Precedes("bundle", "optimize")
  /\ Precedes("bundle", "nameBundles") /\ Precedes("optimize", "nameBundles")
  /\ NamerInvoked =>
       /\ HasEv("nameBundles")
       /\ pc \in {"naming", "failed", "applyRuntimes", "finalize", "done"}
       /\ options.mode = "production" /\ HasEv("bundle") => HasEv("optimize")
  /\ pc \in {"bundle", "optimize"} => (tasks = <<>> /\ ~HasEv("nameBundles"))
  /\ Precedes("nameBundles", "assertUnique")
  /\ Precedes("assertUnique", "applyRuntimes")
  /\ HasEv("applyRuntimes") =>
       /\ HasEv("assertUnique")
       /\ \A i \in 1..Len(tasks) : tasks[i].st = "named"
  /\ HasEv("fromAssetGraph") => Precedes("applyRuntimes", "storeResult")
  /\ (HasEv("fromAssetGraph") /\ HasEv("storeResult")) =>
       (HasEv("applyRuntimes") /\ ~Threw("applyRuntimes"))

\* C21 witness: a production build ran bundle, optimize, naming of two
\* bundles, runtime injection and stored its result.
C21_Witness ==
  /\ pc = "done"
  /\ HasEv("bundle") /\ HasEv("optimize") /\ HasEv("applyRuntimes")
  /\ HasEv("storeResult")
  /\ Len(tasks) = 2
  /\ \A i \in 1..Len(tasks) : tasks[i].st = "named"

\* Positions of one event of the build request in the trace.
PosOf(op, step) == {i \in DOMAIN trace : trace[i] = Ev(op, step)}

Started(step) == PosOf("start", step) # {}
Returned(step) == PosOf("return", step) # {}

\* Every start of step2 comes after a return of step1.
StartedAfterReturn(step1, step2) ==
  \A b \in PosOf("start", step2) : \E a \in PosOf("return", step1) : a < b

\* C22: the build request starts the asset graph request, the bundle graph
\* request and the write bundles request in this order, each at most once
\* and only after the previous one has returned; the bundle graph request
\* receives the asset graph, previousAssetGraphHash and changed assets the
\* first step returned, the write bundles request the bundle graph the second
\* step returned; after a step has failed no step is started.
C22_PipelineOrdering ==
  /\ \A step \in {"assetGraph", "bundleGraph", "writeBundles"} :
       /\ Cardinality(PosOf("start", step)) <= 1
       /\ \A a \in PosOf("throw", step) \cup PosOf("return", step) :
            \E b \in PosOf("start", step) : b < a
       /\ \A a \in PosOf("throw", step) : \A b \in Positions("start") : b < a
  /\ StartedAfterReturn("assetGraph", "bundleGraph")
  /\ StartedAfterReturn("bundleGraph", "writeBundles")
  /\ Started("bundleGraph") =>
       /\ build.assetGraphResult.kind = "record"
       /\ build.bundleGraphRequest.assetGraph = build.assetGraphResult.assetGraph
       /\ build.bundleGraphRequest.previousAssetGraphHash =
            build.assetGraphResult.previousAssetGraphHash
  /\ Started("writeBundles") =>
       /\ build.bundleGraphResult.kind = "record"
       /\ build.writeBundlesRequest.bundleGraph =
            build.bundleGraphResult.bundleGraph
  /\ error # NoError => build.pc = "failed"
  /\ build.pc = "failed" =>
       ~ENABLED (RunAssetGraphRequest \/ AssetGraphReturns
                   \/ BundleGraphReturns \/ WriteBundlesReturns)

\* C22 witness: all three steps returned and the bundle graph request was
\* given a previous hash.
C22_Witness ==
  /\ build.pc = "done"
  /\ Returned("writeBundles")
  /\ build.bundleGraphRequest.previousAssetGraphHash = <<"g1">>
  /\ build.writeBundlesRequest.bundleGraph = 2

MapKeys(m) == {m[i].key : i \in 1..Len(m)}
MapGet(m, key) == (CHOOSE i \in 1..Len(m) : m[i].key = key)

\* C23: in a successful build result changedAssets holds exactly the ids of
\* the asset graph step's map and of the bundle graph step's map, each once;
\* an id the bundle graph step reported maps to that step's entry, any other
\* id to the asset graph step's entry.
C23_ChangedAssetMerge ==
  build.pc = "done" =>
    LET merged == build.result.changedAssets
        fromAssets == build.assetGraphResult.changedAssets
        fromRuntimes == build.bundleGraphResult.changedAssets
    IN /\ MapKeys(merged) = MapKeys(fromAssets) \cup MapKeys(fromRuntimes)
       /\ Len(merged) = Cardinality(MapKeys(merged))
       /\ \A id \in MapKeys(fromRuntimes) :
            merged[MapGet(merged, id)] = fromRuntimes[MapGet(fromRuntimes, id)]
       /\ \A id \in MapKeys(fromAssets) \ MapKeys(fromRuntimes) :
            merged[MapGet(merged, id)] = fromAssets[MapGet(fromAssets, id)]

\* C23 witness: a successful build in which both steps reported asset a1 and
\* each reported an asset the other did not.
C23_Witness ==
  /\ build.pc = "done"
  /\ "a1" \in MapKeys(build.assetGraphResult.changedAssets)
            \cap MapKeys(build.bundleGraphResult.changedAssets)
  /\ "a2" \in MapKeys(build.assetGraphResult.changedAssets)
  /\ "r1" \in MapKeys(build.result.changedAssets)

BuildSettled == build.pc \in {"done", "failed"}

\* C24 as stated: every build inspects the abort signal exactly once.
C24_SingleCheckpoint_Claim ==
  BuildSettled => Cardinality(PosOf("inspect", "signal")) = 1

\* C24: the abort signal is inspected at most once per build and only after
\* the write bundles request has returned, and exactly once in every build
\* whose write bundles request returned; a build whose signal was aborted by
\* then fails with BuildAbortError and has no result, any other such build
\* returns a result; an aborted signal does not keep the bundle graph
\* request or the write bundles request from returning.
C24_SingleCheckpoint ==
  /\ Cardinality(PosOf("inspect", "signal")) <= 1
  /\ \A i \in PosOf("inspect", "signal") :
       \E w \in PosOf("return", "writeBundles") : w < i
  /\ (BuildSettled /\ Returned("writeBundles")) =>
       /\ Cardinality(PosOf("inspect", "signal")) = 1
       /\ IF signal.aborted
            THEN /\ build.pc = "failed" /\ error = BuildAbortError
                 /\ build.result.kind = "none"
            ELSE build.pc = "done" /\ build.result.kind = "record"
  /\ (BuildSettled /\ ~Returned("writeBundles")) =>
       (PosOf("inspect", "signal") = {} /\ error # BuildAbortError)
  /\ build.pc = "bundleGraph" => ENABLED BundleGraphReturns
  /\ build.pc = "writeBundles" => ENABLED WriteBundlesReturns

\* C24 witness: the signal was aborted before the bundle graph request was
\* started, both later steps returned and the build was cancelled.
C24_Witness ==
  /\ \E a \in PosOf("abort", "signal") :
       \A b \in PosOf("start", "bundleGraph") : a < b
  /\ Returned("bundleGraph") /\ Returned("writeBundles")
  /\ build.pc = "failed" /\ error = BuildAbortError

NamersCalled(t) == [k \in 1..Len(t.calls) |-> t.calls[k].namer]

\* Each plugin operation of a run happened at most once, and each namer at
\* most once per bundle, a failing call being the last of its bundle.
InvokedAtMostOnce ==
  /\ CountEv("bundle") <= 1
  /\ CountEv("optimize") <= 1
  /\ CountEv("applyRuntimes") <= 1
  /\ \A i \in 1..Len(tasks) :
       LET called == NamersCalled(tasks[i])
       IN /\ \A k, l \in 1..Len(called) : called[k] = called[l] => k = l
          /\ \A k \in 1..Len(called) :
               tasks[i].calls[k].result = Throws => k = Len(called)

\* A step of a run that has failed and is not replaced by a new run.
AfterFailure == pc = "failed" /\ pc' = "failed"

\* C25 as stated: after a plugin operation has failed no plugin operation,
\* and so no namer, is invoked again in that run.
C25_NoRetries_Claim ==
  [][AfterFailure => (trace' = trace /\ tasks' = tasks)]_vars

\* C25: bundler.bundle, bundler.optimize and applyRuntimes are invoked at
\* most once per run and each namer at most once per bundle; after a failure
\* bundle, optimize and applyRuntimes are not invoked again, and a namer is
\* invoked again only when the failure is that of naming another bundle and
\* the naming of its own bundle is still unsettled.
C25_NoRetries ==
  /\ []InvokedAtMostOnce
  /\ [][AfterFailure =>
          /\ trace' = trace
          /\ \A i \in 1..Len(tasks) :
               tasks'[i] # tasks[i] =>
                 /\ tasks[i].st = "running"
                 /\ \E j \in 1..Len(tasks) : j # i /\ tasks[j].st = "failed"
                 /\ ~HasEv("applyRuntimes")]_vars

\* C25 witness: namer A threw for one bundle and then, in the failed run,
\* A declined and B was asked for the other bundle.
C25_Witness ==
  /\ pc = "failed"
  /\ Len(tasks) = 2
  /\ tasks[1].st = "failed" /\ NamersCalled(tasks[1]) = <<"A">>
  /\ error = Diagnostic("A")
  /\ NamersCalled(tasks[2]) = <<"A", "B">>

\* The flag and the previous hash did not permit the lookup when the miss
\* path was reached.
LookupNotPermitted ==
  \/ ~hashCalls[1].rest.safeToIncrementallyBundle
  \/ input.previousAssetGraphHash = NoStr

\* C26: a build that reaches the miss path with safeToIncrementallyBundle
\* false or without a previousAssetGraphHash never calls getRequestResult,
\* leaves the flag false, patches nothing and builds its bundle graph with
\* fromAssetGraph.
C26_EligibilityPrecondition ==
  (PastDecision /\ TookMissPath /\ LookupNotPermitted) =>
    /\ ~HasEv("getRequestResult")
    /\ ~assetGraph.safeToIncrementallyBundle
    /\ ~TookIncrementalPath
    /\ ~HasEv("updateAsset")
    /\ previousBundleGraphResult.kind = "none"
    /\ pc = "fromAssetGraph" \/ HasEv("fromAssetGraph")
    /\ (internalBundleGraph # 0) => graphs[internalBundleGraph].origin # "free"
    /\ (internalBundleGraph # 0) => internalBundleGraph = runs

\* C26 witness: the previous build's result is stored with the current
\* bundlerHash, but the asset graph's flag was false on entry, and the build
\* completed from a fresh bundle graph.
C26_Witness ==
  /\ pc = "done"
  /\ TookMissPath
  /\ ~hashCalls[1].rest.safeToIncrementallyBundle
  /\ input.previousAssetGraphHash # NoStr
  /\ predecessor.kind = "record"
  /\ predecessor.bundlerHash = keys.bundlerHash
  /\ HasEv("fromAssetGraph")

\* A previous result was fetched and carries the current bundlerHash.
FetchedWithSameHash ==
  /\ previousBundleGraphResult.kind # "none"
  /\ previousBundleGraphResult.bundlerHash = keys.bundlerHash

\* C27: within a run of bundle() safeToIncrementallyBundle never changes from
\* false to true and does not change after the incremental decision; after
\* the decision it is true exactly when a previous result was fetched and
\* its bundlerHash equals the current one, so it is false after an absent
\* previous hash, a failed lookup, a missing result and a hash mismatch.
C27_FlagMonotone ==
  /\ [][(runs' = runs /\ assetGraph'.safeToIncrementallyBundle)
          => assetGraph.safeToIncrementallyBundle]_vars
  /\ [][(runs' = runs /\ PastDecision)
          => assetGraph'.safeToIncrementallyBundle
               = assetGraph.safeToIncrementallyBundle]_vars
  /\ []((PastDecision /\ TookMissPath) =>
          /\ assetGraph.safeToIncrementallyBundle <=> FetchedWithSameHash
          /\ (\/ input.previousAssetGraphHash = NoStr
              \/ Threw("getRequestResult")
              \/ previousBundleGraphResult.kind = "none"
              \/ previousBundleGraphResult.bundlerHash # keys.bundlerHash)
               => ~assetGraph.safeToIncrementallyBundle)

\* C27 witness: the flag was set on entry, the previous result was fetched
\* with another bundlerHash, and the build completed with the flag cleared.
C27_Witness ==
  /\ pc = "done"
  /\ TookMissPath
  /\ hashCalls[1].rest.safeToIncrementallyBundle
  /\ previousBundleGraphResult.kind = "record"
  /\ previousBundleGraphResult.bundlerHash # NoStr
  /\ previousBundleGraphResult.bundlerHash # keys.bundlerHash
  /\ ~assetGraph.safeToIncrementallyBundle

\* C28 as stated: every result handed to storeResult carries the bundlerHash
\* of the computation that stored it.
C28_StoredHashPresent_Claim ==
  \A k \in 1..Len(stores) :
    /\ "bundlerHash" \in stores[k].result.fields
    /\ stores[k].result.bundlerHash = keys.bundlerHash

\* C28 witness: a build permitted to look up its predecessor fetched the
\* record a durable hit had stored, found no bundlerHash in it and built its
\* bundle graph afresh.
C28_Witness ==
  /\ pc = "done"
  /\ TookMissPath
  /\ hashCalls[1].rest.safeToIncrementallyBundle
  /\ HasEv("getRequestResult") /\ ~Threw("getRequestResult")
  /\ previousBundleGraphResult.kind = "record"
  /\ "bundlerHash" \notin previousBundleGraphResult.fields
  /\ ~assetGraph.safeToIncrementallyBundle
  /\ HasEv("fromAssetGraph")

\* The bundle graph of the previous request's result.
PriorGraph == graphs[previousBundleGraphResult.bundleGraph]

\* C29 as stated: when bundle() has failed after taking the incremental path,
\* the bundle graph of the previous request's result is as it was before the
\* run.
C29_FailureAtomicity_Claim ==
  (pc = "failed" /\ TookIncrementalPath) => PriorGraph = priorGraph

\* C29 witness: updateAsset threw at the second changed asset and the graph
\* of the previous result keeps the first asset's patch.
C29_Witness ==
  /\ pc = "failed"
  /\ TookIncrementalPath
  /\ Threw("updateAsset")
  /\ Len(UpdatedAssets) = 2
  /\ PriorGraph.assets # priorGraph.assets
  /\ getRequestResult(input.previousAssetGraphHash).bundleGraph
       = previousBundleGraphResult.bundleGraph

\* The (specifier, resolveFrom) pairs registered so far.
RegisteredPairs ==
  {<<trace[k].arg.specifier, trace[k].arg.resolveFrom>> : k \in 1..Len(trace)}

\* The request registered last for a pair.
MostRecent(pair) ==
  LET at == {k \in 1..Len(trace) :
               <<trace[k].arg.specifier, trace[k].arg.resolveFrom>> = pair}
  IN trace[CHOOSE k \in at : \A l \in at : l <= k].arg

\* C30 as stated: after any sequence of registrations devDepRequests holds,
\* for every distinct (specifier, resolveFrom) registered, exactly one
\* record, the most recent one registered for it.
C30_OneRecordPerPair_Claim ==
  \A pair \in RegisteredPairs :
    /\ Cardinality({i \in 1..Len(devDepRequests) :
                      /\ devDepRequests[i].specifier = pair[1]
                      /\ devDepRequests[i].resolveFrom = pair[2]}) = 1
    /\ MostRecent(pair) \in Range(devDepRequests)

\* C30 witness: two requests that differ in specifier and in resolveFrom
\* were registered and devDepRequests holds one record.
C30_Witness ==
  /\ pc = "devDeps"
  /\ Len(trace) = 2
  /\ trace[1].arg.specifier # trace[2].arg.specifier
  /\ trace[1].arg.resolveFrom # trace[2].arg.resolveFrom
  /\ Len(devDepRequests) = 1
  /\ devDepRequests[1] = trace[2].arg

\* The keys of this.configs, in insertion order.
ConfigKeys == [i \in 1..Len(configs) |-> configs[i].key]

\* The plugins whose configuration loadConfigs loads, in its order.
ConfiguredPlugins ==
  <<BundlerPlugin.name>> \o [i \in 1..Len(Namers) |-> Namers[i].name]
                         \o [i \in 1..Len(Runtimes) |-> Runtimes[i].name]

\* C31: once getHashes has been called, loadConfigs has run exactly once and
\* before it, configs holds an entry for the bundler, every namer and every
\* runtime, the first getHashes read these entries and the dev dependencies
\* declared by the loaded configs; configs does not change afterwards.
C31_ConfigsBeforeProbe ==
  /\ [](hashCalls # <<>> =>
          /\ CountEv("loadConfigs") = 1
          /\ Precedes("loadConfigs", "getHashes")
          /\ Range(ConfiguredPlugins) \subseteq Range(ConfigKeys)
          /\ hashCalls[1].configHashes = MapSeq(configs, HashOf)
          /\ \A i \in 1..Len(ConfigDevDeps(configs[1].hash)) :
               DevDepKey(ConfigDevDeps(configs[1].hash)[i], "config")
                 \in hashCalls[1].devDepKeys)
  /\ [][(runs' = runs /\ hashCalls # <<>>) => configs' = configs]_vars

\* C31 witness: a build whose bundler configuration declares a dev dependency
\* computed its hashes twice and completed.
C31_Witness ==
  /\ pc = "done"
  /\ Len(hashCalls) = 2
  /\ Len(configs) = 4
  /\ DevDepKey("preset", "config") \in hashCalls[1].devDepKeys

\* C32: whatever order the getConfigHash promises settle in, the cache key
\* is the hash of the version, the asset graph hash, the config hashes in
\* the insertion order of configs (bundler, namers in configured order,
\* runtimes in configured order), the dev dependency hashes in the insertion
\* order of devDepRequests, the invalidation hash and the mode; the bundler
\* hash takes the config hashes in the same order.
C32_StableConcatenation ==
  \A k \in 1..Len(hashCalls) :
    /\ ConfigKeys = ConfiguredPlugins
    /\ hashCalls[k].cacheKey =
         hashString(PARCEL_VERSION \o assetGraph.hash
                    \o Join([i \in 1..Len(configs) |-> configs[i].hash])
                    \o Join([i \in 1..Len(devDepRequests) |->
                               devDepRequests[i].hash])
                    \o getInvalidationHash(invalidations)
                    \o <<options.mode>>)
    /\ hashCalls[k].bundlerHash =
         hashString(PARCEL_VERSION \o <<BundlerPlugin.name>>
                    \o Join([i \in 1..Len(configs) |-> configs[i].hash]))
    /\ hashCalls[k].cacheKey = getHashes.cacheKey

\* C32 witness: the hash of the last runtime config was available first and
\* that of the bundler config last, with two dev dependencies registered.
C32_Witness ==
  /\ pc = "hashed"
  /\ Len(hashCalls) = 1
  /\ trace[1].arg[1] = Len(configs)
  /\ trace[1].arg[Len(configs)] = 1
  /\ Len(devDepRequests) >= 2

\* The string with every occurrence of the token replaced.
ReplacedEverywhere(str, token, by) ==
  [i \in 1..Len(str) |-> IF str[i] = token THEN by ELSE str[i]]

\* C33 as stated: a named bundle's name is the string the namer returned; if
\* it contains the bundle's hashReference, displayName is the name with every
\* occurrence of the token replaced by '[hash]' and contains no hashReference
\* token; otherwise displayName equals name.
C33_HashPlaceholder_Claim ==
  \A i \in 1..Len(tasks) :
    tasks[i].st = "named" =>
      LET b == graphs[internalBundleGraph].bundles[tasks[i].bundle]
          r == tasks[i].calls[Len(tasks[i].calls)].result
      IN /\ b.name = r
         /\ IF b.hashReference \in Range(b.name)
              THEN /\ b.displayName =
                        ReplacedEverywhere(b.name, b.hashReference, "[hash]")
                   /\ b.hashReference \notin Range(b.displayName)
              ELSE b.displayName = b.name

\* C33 witness: the namer returned a name with the bundle's hashReference in
\* it twice, and displayName still contains the token.
C33_Witness ==
  /\ tasks[1].st = "named"
  /\ LET b == graphs[internalBundleGraph].bundles[1]
     IN /\ Cardinality({k \in 1..Len(b.name) : b.name[k] = b.hashReference}) = 2
        /\ b.hashReference \in Range(b.displayName)
        /\ "[hash]" \in Range(b.displayName)

\* In this step only the bundle of naming task i changed in the heap.
WritesOnlyBundleOf(i) ==
  \A g \in DOMAIN graphs :
    /\ graphs'[g].origin = graphs[g].origin
    /\ graphs'[g].assets = graphs[g].assets
    /\ Len(graphs'[g].bundles) = Len(graphs[g].bundles)
    /\ \A b \in 1..Len(graphs[g].bundles) :
         IF g = internalBundleGraph /\ b = tasks[i].bundle
           THEN /\ graphs'[g].bundles[b].distDir = graphs[g].bundles[b].distDir
                /\ graphs'[g].bundles[b].isInline = graphs[g].bundles[b].isInline
                /\ graphs'[g].bundles[b].hashReference
                     = graphs[g].bundles[b].hashReference
           ELSE graphs'[g].bundles[b] = graphs[g].bundles[b]

\* A step of one naming task.
NamingStep(i) ==
  /\ runs' = runs /\ Len(tasks') = Len(tasks) /\ tasks # <<>>
  /\ tasks'[i] # tasks[i]

\* C34 as stated, last part: once bundle() has thrown no naming task
\* modifies a bundle.
C34_NamingBarrier_Claim ==
  [][AfterFailure => graphs' = graphs]_vars

\* C34: every naming task writes only the name and displayName of its own
\* bundle; the uniqueness check and the registration of the namers' dev
\* dependencies happen only when every bundle has been named, and never in a
\* run in which a naming task failed; after a naming failure has made
\* bundle() throw, the tasks of the other bundles still run and write, each
\* to its own bundle only.
C34_NamingBarrier ==
  /\ [][\A i \in 1..Len(tasks) : NamingStep(i) =>
          /\ WritesOnlyBundleOf(i)
          /\ \A j \in 1..Len(tasks) : j # i => tasks'[j] = tasks[j]
          /\ ~HasEv("assertUnique")
          /\ NamerKeys \cap RegisteredKeys = {}]_vars
  /\ []((HasEv("assertUnique") \/ NamerKeys \cap RegisteredKeys # {}) =>
          /\ tasks # <<>>
          /\ \A i \in 1..Len(tasks) : tasks[i].st = "named"
          /\ NamerKeys \subseteq RegisteredKeys)
  /\ []((\E i \in 1..Len(tasks) : tasks[i].st = "failed") =>
          (pc = "failed" /\ ~HasEv("assertUnique")))
  /\ [][(AfterFailure /\ graphs' # graphs) =>
          \E i \in 1..Len(tasks) :
            /\ NamingStep(i) /\ tasks[i].st = "running"
            /\ tasks'[i].st = "named"
            /\ \E j \in 1..Len(tasks) : j # i /\ tasks[j].st = "failed"]_vars

\* C34 witness: the naming of the first bundle failed and afterwards, in the
\* failed run, the second bundle was given its name.
C34_Witness ==
  /\ pc = "failed"
  /\ Len(tasks) = 2
  /\ tasks[1].st = "failed" /\ Len(tasks[1].calls) = 1
  /\ tasks[2].st = "named" /\ Len(tasks[2].calls) = 2
  /\ error = tasks[1].error
  /\ graphs[internalBundleGraph].bundles[2].name = <<"y">>

\* C35: a completed miss-path computation called getBundleGraphHash, then
\* cacheSerializedObject, then storeResult, each exactly once; the stored and
\* the returned values are records with the same bundle graph object and
\* bundlerHash, the stored one with an empty changedAssets, the returned one
\* with what applyRuntimes returned.
C35_Finalize ==
  (pc = "done" /\ TookMissPath) =>
    /\ CountEv("storeResult") = 1 /\ Len(stores) = 1
    /\ CountEv("getBundleGraphHash") = 1
    /\ CountEv("cacheSerializedObject") = 1
    /\ Precedes("getBundleGraphHash", "cacheSerializedObject")
    /\ Precedes("cacheSerializedObject", "storeResult")
    /\ Precedes("applyRuntimes", "getBundleGraphHash")
    /\ stores[1].result.kind = "record" /\ returned.kind = "record"
    /\ stores[1].result.fields = ResultFields /\ returned.fields = ResultFields
    /\ stores[1].result.bundleGraph = internalBundleGraph
    /\ returned.bundleGraph = internalBundleGraph
    /\ stores[1].result.bundlerHash = keys.bundlerHash
    /\ returned.bundlerHash = keys.bundlerHash
    /\ stores[1].result.changedAssets = {}
    /\ returned.changedAssets = changedRuntimes
    /\ resident[assetGraph.hash].result = stores[1].result

\* C35 witness: runtime injection changed an asset; the returned record
\* carries it, the stored one does not.
C35_Witness ==
  /\ pc = "done"
  /\ TookMissPath
  /\ changedRuntimes # {}
  /\ returned.changedAssets = changedRuntimes
  /\ Len(stores) = 1
  /\ stores[1].result.changedAssets = {}

\* C36 as stated: when fromAssetGraph or a patch has failed, the error
\* bundle() throws is that failure wrapped as a diagnostic with the bundler's
\* name as origin.
C36_CleanupKeepsFailure_Claim ==
  (pc = "failed" /\ (Threw("fromAssetGraph") \/ Threw("updateAsset")))
    => error = Diagnostic(BundlerPlugin.name)

\* C36 witness: fromAssetGraph threw, no working graph existed, and bundle()
\* threw the assertion error of the finally block.
C36_Witness ==
  /\ pc = "failed"
  /\ Threw("fromAssetGraph")
  /\ internalBundleGraph = 0
  /\ error = PlainError("AssertionError")
  /\ ~HasEv("dump")

\* C37 as stated: every resolve call whose specifier matches the loader
\* pattern throws the loader syntax error and every other call passes the
\* check, whatever was resolved before.
C37_LoaderSyntaxRejected_Claim ==
  \A k \in 1..Len(trace) :
    (trace[k].op = "rejected") <=> MatchesLoaderPattern(trace[k].arg)

\* C37 witness: the same loader-syntax specifier was resolved twice; the first
\* call was rejected, the second passed the check.
C37_Witness ==
  /\ pc = "resolver"
  /\ Len(trace) = 2
  /\ trace[1].arg = trace[2].arg
  /\ MatchesLoaderPattern(trace[1].arg)
  /\ trace[1].op = "rejected"
  /\ trace[2].op = "passed"

\* C38 as stated: skipTarget returns true exactly when the target has a
\* descriptor source and its name differs from the current exclusiveTarget,
\* so a target without a descriptor source is never skipped.
C38_SkipTarget_Claim ==
  pc = "targetDone" =>
    /\ returned.skip <=> (/\ input.descriptorSource # NullStr
                          /\ input.targetName # input.exclusiveTarget)
    /\ input.descriptorSource = NullStr => ~returned.skip

\* C38 witness: with an exclusiveTarget set, a target of another name that has
\* no descriptor source was skipped.
C38_Witness ==
  /\ pc = "targetDone"
  /\ input.exclusiveTarget # NullStr
  /\ input.targetName # input.exclusiveTarget
  /\ input.descriptorSource = NullStr
  /\ returned.skip

\* The nightly versions of the drawn package info.
NightlyVersions == {v \in DOMAIN input.info : NIGHTLY(v)}

\* v has the newest timestamp of the nightly versions.
IsNewest(v) ==
  /\ v \in NightlyVersions
  /\ \A w \in NightlyVersions : input.info[w] <= input.info[v]

====
